---- MODULE Spec2Model ----
(***************************************************************************)
(* Scoring and prediction engine of the stock analyser                     *)
(* (src/src/stock_scorer.py, predictor.py, sentiment_analyzer.py,          *)
(* stock_analyzer.py).                                                     *)
(*                                                                         *)
(* Number representation.  Every Python float is an integer in a fixed     *)
(* unit:                                                                   *)
(*   scores and every value reported through round(x, 2): hundredths       *)
(*       (50.0 is 5000);                                                   *)
(*   prices: thousandths of a currency unit (100.0 is 100000), so that     *)
(*       round(price, 2) is a real conversion;                             *)
(*   indicator readings (RSI, MACD, ADX): thousandths;                     *)
(*   metric values of the fundamentals map: hundred-thousandths (a ROE of  *)
(*       0.15 is 15000, a P/E of 25 is 2500000).                           *)
(* A float computed by arithmetic carries a representation error that is   *)
(* far smaller than any unit above; it only matters when the exact value   *)
(* sits on a rounding tie or on a threshold.  It is modelled by a sign     *)
(* e \in Noise chosen by the action that performs the arithmetic.          *)
(*                                                                         *)
(* The price series (a pandas DataFrame) is abstracted by its row count n  *)
(* and by the readings the code takes from it: the closes at the positions *)
(* it indexes (close is the last one, close_k the one at iloc[-k]), the    *)
(* rolling means, and the indicator values of the `ta` library.  Of the    *)
(* readings on daily returns, returns_std (their standard deviation) is in *)
(* millionths, recent_returns (the mean of the last 10) in                 *)
(* ten-thousandths and volume_trend (the mean of the last 5 volume ratios) *)
(* in thousandths; gain_14 and loss_14 are the 14-row rolling means of the *)
(* positive and of the negated negative close differences.                 *)
(* A reading stands for the float the code holds: comparisons between      *)
(* readings are exact, and a representation error enters only where the    *)
(* engine itself rounds or blends exact two-decimal scores.                *)
(***************************************************************************)
EXTENDS Integers, Sequences, FiniteSets, TLC

VARIABLES
    pc,           \* position in analyze_stock, or in the single call a specification makes
    data,         \* the price series handed to the engine
    metrics,      \* the fundamentals map handed to the engine
    news,         \* what the news provider does for the symbol
    raises,       \* the components whose computation raises in this run
    technical,    \* result of calculate_technical_score
    fundamental,  \* result of calculate_fundamental_score
    sentiment,    \* result of get_overall_sentiment
    momentum,     \* result of calculate_momentum_score
    overall,      \* result of calculate_overall_score
    overall_raw,  \* the local `overall` of calculate_overall_score (unrounded), millionths
    predictions,  \* results of predict_short_term, predict_medium_term, predict_long_term
    entry,        \* result of identify_entry_point
    targets,      \* result of calculate_target_price
    result,       \* what analyze_stock (or the entry point built on it) returned
    cache,        \* StockDataSource.cache: cache key -> (series, time stored)
    clock,        \* the reading of time.time(), in seconds
    args,         \* the arguments of the list entry point being served
    cursor,       \* how many symbols of the list analyze_multiple has been through
    results,      \* the local `results` of analyze_multiple
    fetched       \* the last call of get_stock_data: what it was asked and gave back

\* The state of the engine object and of a list call in progress.
engine == <<cache, clock, args, cursor, results, fetched>>

vars == <<pc, data, metrics, news, raises, technical, fundamental, sentiment,
          momentum, overall, overall_raw, predictions, entry, targets, result,
          engine>>

----------------------------------------------------------------------------
(* Arithmetic helpers *)

\* The signs a floating-point representation error can take.
Noise == {-1, 0, 1}

Abs(x) == IF x < 0 THEN -x ELSE x

\* round(num/den) to the nearest integer of the target unit, den > 0.  A tie is
\* broken by the sign e of the representation error of the float being rounded,
\* and to even when the float is exact (Python's round).
RoundNear(num, den, e) ==
    LET q == num \div den
        r == num - q * den
    IN  IF 2 * r > den THEN q + 1
        ELSE IF 2 * r < den THEN q
        ELSE IF e > 0 THEN q + 1
        ELSE IF e < 0 THEN q
        ELSE IF q % 2 = 0 THEN q ELSE q + 1

\* numpy division followed by round(.., 2): num/den in hundredths of `den`'s
\* quotient; a zero divisor gives nan or an infinity, never an exception.
RoundRatio(num, den, e) ==
    IF den = 0
    THEN IF num = 0 THEN "nan" ELSE IF num > 0 THEN "inf" ELSE "-inf"
    ELSE IF den > 0 THEN RoundNear(num, den, e) ELSE RoundNear(-num, -den, e)

\* A result slot no call has filled yet.
Unset == [unset |-> TRUE]

IsSet(r) == "unset" \notin DOMAIN r

\* Python's {} .
EmptyDict == [k \in {} |-> 0]

\* A freshly constructed engine (`self.cache = {}`) serving no list call.
EngineIdle ==
    /\ cache = EmptyDict /\ clock = 0 /\ fetched = Unset
    /\ args = Unset /\ cursor = 0 /\ results = << >>

\* dict.get(key, default)
Get(d, key, default) == IF key \in DOMAIN d THEN d[key] ELSE default

----------------------------------------------------------------------------
(* The price series *)

\* Largest row count of a series the model hands to the engine.
MaxRows == 253

\* The columns of the frame the provider hands back.
PriceColumns == {"Open", "High", "Low", "Close", "Volume"}

\* A year of rows with every reading in an unremarkable place.
BaseSeries ==
    [ n |-> 252,
      close |-> 100000, close_2 |-> 100000, close_6 |-> 100000,
      close_20 |-> 100000, close_21 |-> 100000,
      rsi |-> 50000, macd_line |-> 0, signal_line |-> 0,
      sma_20 |-> 100000, sma_50 |-> 100000,
      bb_high |-> 104000, bb_low |-> 96000, bb_mid |-> 100000,
      volume |-> 1000, avg_volume |-> 1000, adx |-> 20000,
      recent_volume |-> 1000, historical_volume |-> 1000,
      returns_std |-> 20000, recent_returns |-> 0, volume_trend |-> 1000,
      close_63 |-> 100000, close_126 |-> 100000, close_252 |-> 100000,
      high_52w |-> 120000, low_52w |-> 80000, gain_14 |-> 500, loss_14 |-> 500,
      columns |-> PriceColumns ]

\* A quiet year around 10.00.
FlatSeries ==
    [ BaseSeries EXCEPT
        !.close = 10000, !.close_2 = 10000, !.close_6 = 10000, !.close_20 = 10000,
        !.close_21 = 10000, !.sma_20 = 10000, !.sma_50 = 10000,
        !.bb_high = 10400, !.bb_low = 9600, !.bb_mid = 10000,
        !.close_63 = 10000, !.close_126 = 10000, !.close_252 = 10000,
        !.high_52w = 12000, !.low_52w = 8000 ]

----------------------------------------------------------------------------
(* StockScorer.calculate_technical_score *)

MinTechnicalRows == 50

\* One indicator block of the scorer: the points it adds to `score` and to `max_score`.
RsiBlock(d) ==
    [ score |-> IF 30000 < d.rsi /\ d.rsi < 70000 THEN 15
                ELSE IF 40000 < d.rsi /\ d.rsi < 60000 THEN 20
                ELSE 0,
      max_score |-> 20 ]

MacdBlock(d) ==
    [ score |-> IF d.macd_line > d.signal_line THEN 15 ELSE 0,
      max_score |-> 15 ]

MovingAverageBlock(d) ==
    [ score |-> IF d.close > d.sma_20 /\ d.sma_20 > d.sma_50 THEN 25
                ELSE IF d.close > d.sma_20 THEN 15
                ELSE 0,
      max_score |-> 25 ]

BollingerBlock(d) ==
    [ score |-> IF d.bb_low < d.close /\ d.close < d.bb_high
                THEN IF d.close > d.bb_mid THEN 20 ELSE 10
                ELSE 0,
      max_score |-> 20 ]
\* A variant of the volume block that counts its 10 points in max_score only
\* when it awards them; the denominator of the score then depends on the data.
VolumeBlock_GatedMax(d) ==
    [ score |-> IF d.volume > d.avg_volume THEN 10 ELSE 0,
      max_score |-> IF d.volume > d.avg_volume THEN 10 ELSE 0 ]

VolumeBlock(d) ==
    [ score |-> IF d.volume > d.avg_volume THEN 10 ELSE 0,
      max_score |-> 10 ]

AdxBlock(d) ==
    [ score |-> IF d.adx > 25000 THEN 10 ELSE 0,
      max_score |-> 10 ]

\* The locals `score` and `max_score` when the last block has run.
TechnicalTally(d) ==
    LET blocks == <<RsiBlock(d), MacdBlock(d), MovingAverageBlock(d),
                    BollingerBlock(d), VolumeBlock(d), AdxBlock(d)>>
    IN  [ score |-> blocks[1].score + blocks[2].score + blocks[3].score
                    + blocks[4].score + blocks[5].score + blocks[6].score,
          max_score |-> blocks[1].max_score + blocks[2].max_score
                        + blocks[3].max_score + blocks[4].max_score
                        + blocks[5].max_score + blocks[6].max_score ]

\* round((score / max_score) * 100 if max_score > 0 else 50, 2), in hundredths
NormalizeScore(tally) ==
    IF tally.max_score > 0
    THEN RoundNear(tally.score * 10000, tally.max_score, 0)
    ELSE 5000

\* The `indicators` snapshot: every reading rounded to 2 decimals.
TechnicalIndicators(d, e) ==
    [ rsi |-> RoundNear(d.rsi, 10, e),
      macd |-> RoundNear(d.macd_line, 10, e),
      macd_signal |-> RoundNear(d.signal_line, 10, e),
      sma_20 |-> RoundNear(d.sma_20, 10, e),
      sma_50 |-> RoundNear(d.sma_50, 10, e),
      bb_position |-> RoundRatio((d.close - d.bb_low) * 10000, d.bb_high - d.bb_low, e),
      volume_ratio |-> RoundRatio(d.volume * 100, d.avg_volume, e),
      adx |-> RoundNear(d.adx, 10, e) ]

NeutralTechnical == [score |-> 5000, indicators |-> EmptyDict]
\* A variant of the technical scorer without the row-count guard.
calculate_technical_score_NoGuard(d, fails, e) ==
    IF fails THEN NeutralTechnical
    ELSE [ score |-> NormalizeScore(TechnicalTally(d)),
           indicators |-> TechnicalIndicators(d, e) ]

calculate_technical_score(d, fails, e) ==
    IF d.n = 0 \/ d.n < MinTechnicalRows THEN NeutralTechnical
    ELSE IF fails THEN NeutralTechnical
    ELSE [ score |-> NormalizeScore(TechnicalTally(d)),
           indicators |-> TechnicalIndicators(d, e) ]

----------------------------------------------------------------------------
(* StockScorer.calculate_fundamental_score *)

\* A metric value is None or a number: << >> or <<x>>, x in hundred-thousandths.
None == << >>

Num(x) == <<x>>

IsNone(v) == v = None

Val(v) == v[1]

\* Python truthiness of an optional number: neither None nor zero.
Truthy(v) == ~IsNone(v) /\ Val(v) # 0

\* One metric block: the points it adds to `score` and `max_score`, and the
\* entry it adds to `analysis` (none when `shown` is FALSE).
PeBlock(m) ==
    LET pe == Get(m, "pe_ratio", None)
        ok == Truthy(pe) /\ Val(pe) > 0
    IN  [ score |-> IF ~ok THEN 0
                    ELSE IF 1000000 < Val(pe) /\ Val(pe) < 2500000 THEN 15
                    ELSE IF 500000 < Val(pe) /\ Val(pe) < 3500000 THEN 10
                    ELSE IF Val(pe) > 0 THEN 5
                    ELSE 0,
          max_score |-> 15,
          shown |-> ok,
          value |-> IF ok THEN Val(pe) ELSE 0 ]

PegBlock(m) ==
    LET peg == Get(m, "peg_ratio", None)
        ok == Truthy(peg) /\ Val(peg) > 0
    IN  [ score |-> IF ~ok THEN 0
                    ELSE IF Val(peg) < 100000 THEN 15
                    ELSE IF Val(peg) < 200000 THEN 10
                    ELSE IF Val(peg) < 300000 THEN 5
                    ELSE 0,
          max_score |-> 15,
          shown |-> ok,
          value |-> IF ok THEN Val(peg) ELSE 0 ]

PriceToBookBlock(m) ==
    LET pb == Get(m, "price_to_book", None)
        ok == Truthy(pb) /\ Val(pb) > 0
    IN  [ score |-> IF ~ok THEN 0
                    ELSE IF Val(pb) < 300000 THEN 10
                    ELSE IF Val(pb) < 500000 THEN 5
                    ELSE 0,
          max_score |-> 10,
          shown |-> ok,
          value |-> IF ok THEN Val(pb) ELSE 0 ]
\* A variant of the debt/equity block that counts its 10 points in max_score
\* only when the metric is present.
DebtToEquityBlock_GatedMax(m) ==
    LET de == Get(m, "debt_to_equity", None)
        ok == ~IsNone(de)
    IN  [ score |-> IF ~ok THEN 0
                    ELSE IF Val(de) < 50000 THEN 10
                    ELSE IF Val(de) < 100000 THEN 7
                    ELSE IF Val(de) < 200000 THEN 3
                    ELSE 0,
          max_score |-> IF ok THEN 10 ELSE 0,
          shown |-> ok,
          value |-> IF ok THEN Val(de) ELSE 0 ]

DebtToEquityBlock(m) ==
    LET de == Get(m, "debt_to_equity", None)
        ok == ~IsNone(de)
    IN  [ score |-> IF ~ok THEN 0
                    ELSE IF Val(de) < 50000 THEN 10
                    ELSE IF Val(de) < 100000 THEN 7
                    ELSE IF Val(de) < 200000 THEN 3
                    ELSE 0,
          max_score |-> 10,
          shown |-> ok,
          value |-> IF ok THEN Val(de) ELSE 0 ]

\* round(x * 100, 2) of a fraction x, in hundredths
Percent2(v) == RoundNear(Val(v), 10, 0)

RoeBlock(m) ==
    LET roe == Get(m, "roe", None)
        ok == Truthy(roe)
    IN  [ score |-> IF ~ok THEN 0
                    ELSE IF Val(roe) > 15000 THEN 15
                    ELSE IF Val(roe) > 10000 THEN 10
                    ELSE IF Val(roe) > 5000 THEN 5
                    ELSE 0,
          max_score |-> 15,
          shown |-> ok,
          value |-> IF ok THEN Percent2(roe) ELSE 0 ]

ProfitMarginBlock(m) ==
    LET margin == Get(m, "profit_margin", None)
        ok == Truthy(margin)
    IN  [ score |-> IF ~ok THEN 0
                    ELSE IF Val(margin) > 20000 THEN 10
                    ELSE IF Val(margin) > 10000 THEN 7
                    ELSE IF Val(margin) > 5000 THEN 3
                    ELSE 0,
          max_score |-> 10,
          shown |-> ok,
          value |-> IF ok THEN Percent2(margin) ELSE 0 ]

RevenueGrowthBlock(m) ==
    LET rev_growth == Get(m, "revenue_growth", None)
        ok == Truthy(rev_growth)
    IN  [ score |-> IF ~ok THEN 0
                    ELSE IF Val(rev_growth) > 20000 THEN 15
                    ELSE IF Val(rev_growth) > 10000 THEN 10
                    ELSE IF Val(rev_growth) > 5000 THEN 5
                    ELSE 0,
          max_score |-> 15,
          shown |-> ok,
          value |-> IF ok THEN Percent2(rev_growth) ELSE 0 ]

DividendYieldBlock(m) ==
    LET div_yield == Get(m, "dividend_yield", None)
        ok == Truthy(div_yield)
    IN  [ score |-> IF ok /\ Val(div_yield) > 2000 THEN 5 ELSE 0,
          max_score |-> 5,
          shown |-> ok,
          value |-> IF ok THEN Percent2(div_yield) ELSE 0 ]

BetaBlock(m) ==
    LET beta == Get(m, "beta", None)
        ok == Truthy(beta)
    IN  [ score |-> IF ok /\ 50000 < Val(beta) /\ Val(beta) < 150000 THEN 5 ELSE 0,
          max_score |-> 5,
          shown |-> ok,
          value |-> IF ok THEN Val(beta) ELSE 0 ]

\* The metrics the scorer reads, in the order of its blocks.
ScoredKeys ==
    <<"pe_ratio", "peg_ratio", "price_to_book", "debt_to_equity", "roe",
      "profit_margin", "revenue_growth", "dividend_yield", "beta">>

FundamentalBlocks(m) ==
    <<PeBlock(m), PegBlock(m), PriceToBookBlock(m), DebtToEquityBlock(m),
      RoeBlock(m), ProfitMarginBlock(m), RevenueGrowthBlock(m),
      DividendYieldBlock(m), BetaBlock(m)>>

RECURSIVE SumField(_, _, _)
SumField(blocks, field, i) ==
    IF i = 0 THEN 0 ELSE blocks[i][field] + SumField(blocks, field, i - 1)

\* The locals `score` and `max_score` when the last block has run.
FundamentalTally(m) ==
    LET blocks == FundamentalBlocks(m)
    IN  [ score |-> SumField(blocks, "score", Len(blocks)),
          max_score |-> SumField(blocks, "max_score", Len(blocks)) ]

\* The `analysis` mapping: one entry per metric whose block was entered.
FundamentalAnalysis(m) ==
    LET blocks == FundamentalBlocks(m)
        shown == { i \in 1..Len(blocks) : blocks[i].shown }
    IN  [ k \in { ScoredKeys[i] : i \in shown } |->
            blocks[CHOOSE i \in shown : ScoredKeys[i] = k].value ]

NeutralFundamental == [score |-> 5000, analysis |-> EmptyDict]
\* A variant of the fundamental scorer without the empty-map guard.
calculate_fundamental_score_NoGuard(m, fails) ==
    IF fails THEN NeutralFundamental
    ELSE [ score |-> NormalizeScore(FundamentalTally(m)),
           analysis |-> FundamentalAnalysis(m) ]

calculate_fundamental_score(m, fails) ==
    IF DOMAIN m = {} THEN NeutralFundamental
    ELSE IF fails THEN NeutralFundamental
    ELSE [ score |-> NormalizeScore(FundamentalTally(m)),
           analysis |-> FundamentalAnalysis(m) ]

----------------------------------------------------------------------------
(* StockScorer.calculate_momentum_score *)

MinMomentumRows == 30

\* ((last - base) / base) * 100 > pct, as numpy evaluates it: a zero base gives
\* an infinity (greater than everything) or nan (greater than nothing).
ReturnAbove(last, base, pct) ==
    IF base > 0 THEN (last - base) * 100 > pct * base
    ELSE IF base = 0 THEN last > 0
    ELSE (last - base) * 100 < pct * base

\* round(((last - base) / base) * 100, 2), in hundredths
ReturnPct(last, base, e) == RoundRatio((last - base) * 10000, base, e)
\* A variant of the momentum tally whose 1-day tier is reached at 2% itself.
MomentumTally_ClosedTier(d) ==
    LET s1 == IF d.close_2 > 0 /\ (d.close - d.close_2) * 100 >= 2 * d.close_2 THEN 10
              ELSE IF ReturnAbove(d.close, d.close_2, 0) THEN 5 ELSE 0
        s5 == IF ReturnAbove(d.close, d.close_6, 5) THEN 20
              ELSE IF ReturnAbove(d.close, d.close_6, 0) THEN 10 ELSE 0
        s20 == IF ReturnAbove(d.close, d.close_21, 10) THEN 20
               ELSE IF ReturnAbove(d.close, d.close_21, 0) THEN 10 ELSE 0
    IN  [ score |-> s1 + s5 + s20, max_score |-> 10 + 20 + 20 ]

MomentumTally(d) ==
    LET s1 == IF ReturnAbove(d.close, d.close_2, 2) THEN 10
              ELSE IF ReturnAbove(d.close, d.close_2, 0) THEN 5 ELSE 0
        s5 == IF ReturnAbove(d.close, d.close_6, 5) THEN 20
              ELSE IF ReturnAbove(d.close, d.close_6, 0) THEN 10 ELSE 0
        s20 == IF ReturnAbove(d.close, d.close_21, 10) THEN 20
               ELSE IF ReturnAbove(d.close, d.close_21, 0) THEN 10 ELSE 0
    IN  [ score |-> s1 + s5 + s20, max_score |-> 10 + 20 + 20 ]

NeutralMomentum == [score |-> 5000, momentum |-> EmptyDict]

\* A variant of the momentum scorer whose failure path keeps the returns it
\* had computed next to the neutral score.
calculate_momentum_score_KeepsReturns(d, fails, e) ==
    IF d.n = 0 \/ d.n < MinMomentumRows THEN NeutralMomentum
    ELSE [ score |-> IF fails THEN 5000 ELSE NormalizeScore(MomentumTally(d)),
           momentum |-> [ return_1d |-> ReturnPct(d.close, d.close_2, e),
                          return_5d |-> ReturnPct(d.close, d.close_6, e),
                          return_20d |-> ReturnPct(d.close, d.close_21, e) ] ]

calculate_momentum_score(d, fails, e) ==
    IF d.n = 0 \/ d.n < MinMomentumRows THEN NeutralMomentum
    ELSE IF fails THEN NeutralMomentum
    ELSE [ score |-> NormalizeScore(MomentumTally(d)),
           momentum |-> [ return_1d |-> ReturnPct(d.close, d.close_2, e),
                          return_5d |-> ReturnPct(d.close, d.close_6, e),
                          return_20d |-> ReturnPct(d.close, d.close_21, e) ] ]

----------------------------------------------------------------------------
(* SentimentAnalyzer *)

\* news[:20]: the number of articles whose text is analysed.
NewsLimit == 20

Min(a, b) == IF a < b THEN a ELSE b

Max(a, b) == IF a > b THEN a ELSE b

RECURSIVE SumSeq(_)
SumSeq(q) == IF q = << >> THEN 0 ELSE Head(q) + SumSeq(Tail(q))

NoNewsSentiment(score) ==
    [ sentiment_score |-> score, news_count |-> 0, positive_count |-> 0,
      negative_count |-> 0, neutral_count |-> 0, average_polarity |-> 0 ]
\* A variant of the news sentiment that maps the mean polarity to a score with
\* (avg + 1) * 100, forgetting to halve it.
get_stock_news_sentiment_NotHalved(nw, e) ==
    IF nw.kind = "error" THEN NoNewsSentiment(5000)
    ELSE IF nw.kind = "none" \/ nw.polarities = << >> THEN NoNewsSentiment(0)
    ELSE
      LET sentiments == SubSeq(nw.polarities, 1, Min(NewsLimit, Len(nw.polarities)))
          total == SumSeq(sentiments)
      IN  [ sentiment_score |->
                RoundNear((total + 1000 * Len(sentiments)) * 10, Len(sentiments), e),
            news_count |-> Len(nw.polarities),
            average_polarity |-> RoundNear(total, Len(sentiments), e) ]

\* nw.kind is "error" (the provider raises), "none" (no article) or "articles",
\* with nw.polarities the TextBlob polarity of each article in thousandths.
get_stock_news_sentiment(nw, e) ==
    IF nw.kind = "error" THEN NoNewsSentiment(5000)
    ELSE IF nw.kind = "none" \/ nw.polarities = << >> THEN NoNewsSentiment(0)
    ELSE
      LET sentiments == SubSeq(nw.polarities, 1, Min(NewsLimit, Len(nw.polarities)))
          idx == 1..Len(sentiments)
          positive == Cardinality({ i \in idx : sentiments[i] > 100 })
          negative == Cardinality({ i \in idx : sentiments[i] < -100 })
          total == SumSeq(sentiments)
      IN  [ \* round(((avg + 1) / 2) * 100, 2)
            sentiment_score |->
                RoundNear((total + 1000 * Len(sentiments)) * 5, Len(sentiments), e),
            news_count |-> Len(nw.polarities),
            positive_count |-> positive,
            negative_count |-> negative,
            neutral_count |-> Len(sentiments) - positive - negative,
            \* round(avg, 3), in thousandths
            average_polarity |-> RoundNear(total, Len(sentiments), e) ]

MinSentimentRows == 20

\* ((last - base) / base) * 100 < pct, as numpy evaluates it.
ReturnBelow(last, base, pct) ==
    IF base > 0 THEN (last - base) * 100 < pct * base
    ELSE IF base = 0 THEN last < 0
    ELSE (last - base) * 100 > pct * base

NeutralMarketSentiment == [market_sentiment |-> 5000, volume_trend |-> "neutral"]

\* recent_volume / historical_volume > num/10 (the ratio is 1.0 when
\* historical_volume is not positive)
VolumeRatioAbove(d, num) ==
    IF d.historical_volume > 0 THEN d.recent_volume * 10 > num * d.historical_volume
    ELSE 10 > num

VolumeRatioBelow(d, num) ==
    IF d.historical_volume > 0 THEN d.recent_volume * 10 < num * d.historical_volume
    ELSE 10 < num

get_market_sentiment_indicators(d, fails, e) ==
    IF fails THEN NeutralMarketSentiment
    ELSE IF d.n = 0 \/ d.n < MinSentimentRows THEN NeutralMarketSentiment
    ELSE
      LET sma_50 == IF d.n >= 50 THEN d.sma_50 ELSE d.sma_20
          momentum_part ==
              IF ReturnAbove(d.close, d.close_20, 10) THEN 20
              ELSE IF ReturnAbove(d.close, d.close_20, 5) THEN 10
              ELSE IF ReturnAbove(d.close, d.close_20, 0) THEN 5
              ELSE IF ReturnBelow(d.close, d.close_20, -10) THEN -20
              ELSE IF ReturnBelow(d.close, d.close_20, -5) THEN -10
              ELSE IF ReturnBelow(d.close, d.close_20, 0) THEN -5
              ELSE 0
          volume_part ==
              IF VolumeRatioAbove(d, 15) THEN 10
              ELSE IF VolumeRatioAbove(d, 12) THEN 5
              ELSE IF VolumeRatioBelow(d, 8) THEN -5
              ELSE 0
          trend_part ==
              IF d.close > d.sma_20 /\ d.sma_20 > sma_50 THEN 10
              ELSE IF d.close < d.sma_20 /\ d.sma_20 < sma_50 THEN -10
              ELSE 0
          sentiment_local == Max(0, Min(100, 50 + momentum_part + volume_part + trend_part))
      IN  [ market_sentiment |-> sentiment_local * 100,
            volume_trend |-> IF VolumeRatioAbove(d, 12) THEN "increasing"
                             ELSE IF VolumeRatioBelow(d, 8) THEN "decreasing"
                             ELSE "neutral",
            volume_ratio |-> IF d.historical_volume > 0
                             THEN RoundNear(d.recent_volume * 100, d.historical_volume, e)
                             ELSE 100,
            recent_return |-> ReturnPct(d.close, d.close_20, e),
            \* round(std * 252 ** 0.5 * 100, 2), with 252 ** 0.5 taken as 127/8
            volatility |-> RoundNear(d.returns_std * 127, 800, e),
            price_vs_sma20 |-> ReturnPct(d.close, d.sma_20, e) ]

\* The blend news * 0.4 + market * 0.6 as a float, in ten-thousandths.
SentimentRaw(news_sentiment, market_sentiment, e) ==
    (news_sentiment.sentiment_score * 4 + market_sentiment.market_sentiment * 6) * 10 + e

SentimentRating(raw) ==
    IF raw >= 750000 THEN "Very Bullish"
    ELSE IF raw >= 600000 THEN "Bullish"
    ELSE IF raw >= 400000 THEN "Neutral"
    ELSE IF raw >= 250000 THEN "Bearish"
    ELSE "Very Bearish"

get_overall_sentiment(nw, d, fails, e) ==
    LET news_sentiment == get_stock_news_sentiment(nw, e)
        market_sentiment == get_market_sentiment_indicators(d, fails, e)
        raw == SentimentRaw(news_sentiment, market_sentiment, e)
    IN  [ overall_sentiment_score |-> RoundNear(raw, 100, 0),
          sentiment_rating |-> SentimentRating(raw),
          news_sentiment |-> news_sentiment,
          market_sentiment |-> market_sentiment ]

----------------------------------------------------------------------------
(* StockScorer.calculate_overall_score *)
\* A variant of the weights with sentiment and momentum exchanged.
weights_Exchanged ==
    [technical |-> 35, fundamental |-> 35, sentiment |-> 10, momentum |-> 20]

\* self.weights, in percent
weights == [technical |-> 35, fundamental |-> 35, sentiment |-> 20, momentum |-> 10]

\* The local `overall`: the weighted sum as a float, in millionths.
OverallRaw(technical_r, fundamental_r, sentiment_r, momentum_r, e) ==
    LET tech_score == Get(technical_r, "score", 5000)
        fund_score == Get(fundamental_r, "score", 5000)
        sent_score == Get(sentiment_r, "overall_sentiment_score", 5000)
        mom_score == Get(momentum_r, "score", 5000)
    IN  100 * (tech_score * weights.technical + fund_score * weights.fundamental
               + sent_score * weights.sentiment + mom_score * weights.momentum) + e
\* A variant of the rating whose top tier is open below.
RatingOf_OpenTop(raw) ==
    IF raw > 80000000 THEN [rating |-> "Strong Buy", stars |-> 5]
    ELSE IF raw >= 65000000 THEN [rating |-> "Buy", stars |-> 4]
    ELSE IF raw >= 50000000 THEN [rating |-> "Hold", stars |-> 3]
    ELSE IF raw >= 35000000 THEN [rating |-> "Sell", stars |-> 2]
    ELSE [rating |-> "Strong Sell", stars |-> 1]

RatingOf(raw) ==
    IF raw >= 80000000 THEN [rating |-> "Strong Buy", stars |-> 5]
    ELSE IF raw >= 65000000 THEN [rating |-> "Buy", stars |-> 4]
    ELSE IF raw >= 50000000 THEN [rating |-> "Hold", stars |-> 3]
    ELSE IF raw >= 35000000 THEN [rating |-> "Sell", stars |-> 2]
    ELSE [rating |-> "Strong Sell", stars |-> 1]

calculate_overall_score(technical_r, fundamental_r, sentiment_r, momentum_r, e) ==
    LET raw == OverallRaw(technical_r, fundamental_r, sentiment_r, momentum_r, e)
    IN  [ overall_score |-> RoundNear(raw, 10000, 0),
          rating |-> RatingOf(raw).rating,
          stars |-> RatingOf(raw).stars,
          component_scores |->
              [ technical |-> Get(technical_r, "score", 5000),
                fundamental |-> Get(fundamental_r, "score", 5000),
                sentiment |-> Get(sentiment_r, "overall_sentiment_score", 5000),
                momentum |-> Get(momentum_r, "score", 5000) ] ]

----------------------------------------------------------------------------
(* StockPredictor.calculate_target_price *)

\* `upside`, in percent
UpsideOf(score) ==
    IF score >= 8000 THEN 25
    ELSE IF score >= 6500 THEN 15
    ELSE IF score >= 5000 THEN 10
    ELSE 5
\* A variant of the stop-loss tiers whose 8% tier starts above 70.
StopFactorOf_Above70(score) ==
    IF score > 7000 THEN 92
    ELSE IF score >= 5000 THEN 90
    ELSE 85

\* stop_loss / current_price, in percent
StopFactorOf(score) ==
    IF score >= 7000 THEN 92
    ELSE IF score >= 5000 THEN 90
    ELSE 85

\* current_price in thousandths, score in hundredths.  A zero price divides by
\* zero: a numpy float gives nan, a Python float raises and the handler
\* returns {}.
calculate_target_price(current_price, score, isNumpy, e1, e2, e3) ==
    LET upside == UpsideOf(score)
        factor == StopFactorOf(score)
    IN  IF current_price = 0 /\ ~isNumpy THEN EmptyDict
        ELSE [ target_price |-> RoundNear(current_price * (100 + upside), 1000, e1),
               stop_loss |-> RoundNear(current_price * factor, 1000, e2),
               upside_potential |-> upside * 100,
               downside_risk |-> IF current_price = 0 THEN "nan"
                                 ELSE (100 - factor) * 100,
               risk_reward_ratio |-> IF current_price = 0 THEN "nan"
                                     ELSE RoundNear(upside * 100, 100 - factor, e3) ]

----------------------------------------------------------------------------
(* StockPredictor: forecasts and entry point *)

MinShortTermRows == 30

MinLongTermRows == 100

MinEntryRows == 50

InsufficientPrediction == [prediction |-> "Insufficient data", confidence |-> 0]

ErrorPrediction == [prediction |-> "Error", confidence |-> 0]

\* A variant of the volume adjustment that already applies at 1.2 and 0.8.
PredictedChange_ClosedBounds(d, days) ==
    LET base == d.recent_returns * days
    IN  IF d.volume_trend >= 1200 THEN base * 11
        ELSE IF d.volume_trend <= 800 THEN base * 9
        ELSE base * 10

\* The local `predicted_change`, in hundred-thousandths:
\* recent_returns * days, times 1.1, 0.9 or 1 by the volume trend.
PredictedChange(d, days) ==
    LET base == d.recent_returns * days
    IN  IF d.volume_trend > 1200 THEN base * 11
        ELSE IF d.volume_trend < 800 THEN base * 9
        ELSE base * 10

\* A variant of the confidence that is not cut off at 0.
ConfidenceOf_NoFloor(d, factor) ==
    Min(1000000, 1000000 - (d.returns_std * factor) \div 100)

\* max(0, min(100, 100 - std * factor)), in ten-thousandths
ConfidenceOf(d, factor) ==
    Max(0, Min(1000000, 1000000 - (d.returns_std * factor) \div 100))

\* A variant of the short-term forecast that calls a zero change 'Up'.
predict_short_term_UpOnZero(d, days, fails, e) ==
    IF d.n = 0 \/ d.n < MinShortTermRows THEN InsufficientPrediction
    ELSE IF fails THEN ErrorPrediction
    ELSE
      LET predicted_change == PredictedChange(d, days)
      IN  [ current_price |-> RoundNear(d.close, 10, e),
            predicted_price |-> RoundNear(d.close * (100000 + predicted_change), 1000000, e),
            predicted_change_pct |-> RoundNear(predicted_change, 10, e),
            direction |-> IF predicted_change >= 0 THEN "Up" ELSE "Down",
            magnitude |-> RoundNear(Abs(predicted_change), 10, e),
            confidence |-> RoundNear(ConfidenceOf(d, 1000), 100, e),
            timeframe |-> <<days, "day(s)">> ]

predict_short_term(d, days, fails, e) ==
    IF d.n = 0 \/ d.n < MinShortTermRows THEN InsufficientPrediction
    ELSE IF fails THEN ErrorPrediction
    ELSE
      LET predicted_change == PredictedChange(d, days)
      IN  [ current_price |-> RoundNear(d.close, 10, e),
            predicted_price |-> RoundNear(d.close * (100000 + predicted_change), 1000000, e),
            predicted_change_pct |-> RoundNear(predicted_change, 10, e),
            direction |-> IF predicted_change > 0 THEN "Up" ELSE "Down",
            magnitude |-> RoundNear(Abs(predicted_change), 10, e),
            confidence |-> RoundNear(ConfidenceOf(d, 1000), 100, e),
            timeframe |-> <<days, "day(s)">> ]

predict_medium_term(d, weeks, fails, e) == predict_short_term(d, weeks * 7, fails, e)

\* (last - base) / base of two closes, in thousandths (exact on the series of
\* this model, whose base closes divide the difference; base is a traded,
\* positive price).
Growth(last, base) == RoundNear((last - base) * 1000, base, 0)

\* A variant of the blend that reads the 126- and 252-row closes whatever the
\* length of the series.
AvgGrowth_NoFallback(d) ==
    Growth(d.close, d.close_63) * 5 + Growth(d.close, d.close_126) * 3
    + Growth(d.close, d.close_252) * 2

\* growth_3m * 0.5 + growth_6m * 0.3 + growth_12m * 0.2, in ten-thousandths
AvgGrowth(d) ==
    LET growth_3m == IF d.n >= 63 THEN Growth(d.close, d.close_63) ELSE 0
        growth_6m == IF d.n >= 126 THEN Growth(d.close, d.close_126) ELSE growth_3m
        growth_12m == IF d.n >= 252 THEN Growth(d.close, d.close_252) ELSE growth_6m
    IN  growth_3m * 5 + growth_6m * 3 + growth_12m * 2

predict_long_term(d, months, fails, e) ==
    IF d.n = 0 \/ d.n < MinLongTermRows THEN InsufficientPrediction
    ELSE IF fails THEN ErrorPrediction
    ELSE
      LET \* annual_growth = avg_growth * (12 / 3), in ten-thousandths
          annual_growth == AvgGrowth(d) * 4
          \* predicted_growth = annual_growth * (months / 12), as the fraction
          \* growth3 / 3 of ten-thousandths
          growth3 == AvgGrowth(d) * months
      IN  [ current_price |-> RoundNear(d.close, 10, e),
            predicted_price |-> RoundNear(d.close * (30000 + growth3), 300000, e),
            predicted_change_pct |-> RoundNear(growth3, 3, e),
            direction |-> IF growth3 > 0 THEN "Bullish" ELSE "Bearish",
            confidence |-> RoundNear(ConfidenceOf(d, 800) * 7, 1000, e),
            timeframe |-> <<months, "month(s)">>,
            \* round(annual_growth * 100, 2): a whole number of hundredths
            annual_growth_rate |-> annual_growth ]

\* range_position < 40, with range_position = (price - low) / (high - low) * 100
\* (on a zero range the quotient is nan or an infinity of the sign of the
\* numerator).
RangePositionBelow40(d) ==
    IF d.high_52w > d.low_52w
    THEN (d.close - d.low_52w) * 100 < 40 * (d.high_52w - d.low_52w)
    ELSE IF d.high_52w < d.low_52w
    THEN (d.close - d.low_52w) * 100 > 40 * (d.high_52w - d.low_52w)
    ELSE d.close < d.low_52w

\* current_rsi < 40, with rs = gain / loss and rsi = 100 - 100 / (1 + rs)
\* (100 when only loss is zero, nan when both are).
EntryRsiBelow40(d) ==
    d.gain_14 + d.loss_14 > 0 /\ d.gain_14 * 100 < 40 * (d.gain_14 + d.loss_14)

\* A variant of the tag collection whose 'RSI oversold' tag needs an RSI below 30.
EntrySignals_Oversold30(d, score) ==
    (IF RangePositionBelow40(d) THEN <<"Near 52-week low">> ELSE << >>)
    \o (IF d.close < d.sma_20 /\ d.sma_20 < d.sma_50 /\ score > 6000
        THEN <<"Price below MA with good fundamentals">> ELSE << >>)
    \o (IF d.gain_14 + d.loss_14 > 0 /\ d.gain_14 * 100 < 30 * (d.gain_14 + d.loss_14)
        THEN <<"RSI oversold">> ELSE << >>)
    \o (IF d.close > d.sma_20 /\ score > 7000
        THEN <<"Strong uptrend with high score">> ELSE << >>)

EntrySignals(d, score) ==
    (IF RangePositionBelow40(d) THEN <<"Near 52-week low">> ELSE << >>)
    \o (IF d.close < d.sma_20 /\ d.sma_20 < d.sma_50 /\ score > 6000
        THEN <<"Price below MA with good fundamentals">> ELSE << >>)
    \o (IF EntryRsiBelow40(d) THEN <<"RSI oversold">> ELSE << >>)
    \o (IF d.close > d.sma_20 /\ score > 7000
        THEN <<"Strong uptrend with high score">> ELSE << >>)

\* A variant of the label whose 'Consider Buying' tier starts at 50 itself.
EntrySignalOf_From50(d, score) ==
    IF score > 7000 /\ Len(EntrySignals(d, score)) >= 2 THEN "Strong Buy Now"
    ELSE IF score > 6000 /\ (EntryRsiBelow40(d) \/ RangePositionBelow40(d))
    THEN "Good Entry Point"
    ELSE IF score >= 5000 THEN "Consider Buying"
    ELSE "Wait for Better Entry"

EntrySignalOf(d, score) ==
    IF score > 7000 /\ Len(EntrySignals(d, score)) >= 2 THEN "Strong Buy Now"
    ELSE IF score > 6000 /\ (EntryRsiBelow40(d) \/ RangePositionBelow40(d))
    THEN "Good Entry Point"
    ELSE IF score > 5000 THEN "Consider Buying"
    ELSE "Wait for Better Entry"

\* A variant of the entry classifier that is content with 30 rows.
identify_entry_point_ThirtyRows(d, score, fails, e) ==
    IF d.n = 0 \/ d.n < MinShortTermRows THEN [entry_signal |-> "Insufficient data"]
    ELSE IF fails THEN [entry_signal |-> "Error"]
    ELSE
      ("entry_signal" :> EntrySignalOf(d, score))
      @@ ("52w_range_position" :>
            RoundRatio((d.close - d.low_52w) * 10000, d.high_52w - d.low_52w, e))
      @@ ("current_vs_sma20" :> ReturnPct(d.close, d.sma_20, e))
      @@ ("current_vs_sma50" :> ReturnPct(d.close, d.sma_50, e))
      @@ ("rsi" :> RoundRatio(d.gain_14 * 10000, d.gain_14 + d.loss_14, e))
      @@ ("signals" :> EntrySignals(d, score))

identify_entry_point(d, score, fails, e) ==
    IF d.n = 0 \/ d.n < MinEntryRows THEN [entry_signal |-> "Insufficient data"]
    ELSE IF fails THEN [entry_signal |-> "Error"]
    ELSE
      ("entry_signal" :> EntrySignalOf(d, score))
      @@ ("52w_range_position" :>
            RoundRatio((d.close - d.low_52w) * 10000, d.high_52w - d.low_52w, e))
      @@ ("current_vs_sma20" :> ReturnPct(d.close, d.sma_20, e))
      @@ ("current_vs_sma50" :> ReturnPct(d.close, d.sma_50, e))
      @@ ("rsi" :> RoundRatio(d.gain_14 * 10000, d.gain_14 + d.loss_14, e))
      @@ ("signals" :> EntrySignals(d, score))

----------------------------------------------------------------------------
(* Steps *)

TechnicalStep(next) ==
    /\ pc = "technical"
    /\ \E e \in Noise :
         technical' = calculate_technical_score(data, "technical" \in raises, e)
    /\ pc' = next
    /\ UNCHANGED <<data, metrics, news, raises, fundamental, sentiment, momentum,
                   overall, overall_raw, predictions, entry, targets, result, engine>>

FundamentalStep(next) ==
    /\ pc = "fundamental"
    /\ fundamental' = calculate_fundamental_score(metrics, "fundamental" \in raises)
    /\ pc' = next
    /\ UNCHANGED <<data, metrics, news, raises, technical, sentiment, momentum,
                   overall, overall_raw, predictions, entry, targets, result, engine>>

MomentumStep(next) ==
    /\ pc = "momentum"
    /\ \E e \in Noise :
         momentum' = calculate_momentum_score(data, "momentum" \in raises, e)
    /\ pc' = next
    /\ UNCHANGED <<data, metrics, news, raises, technical, fundamental, sentiment,
                   overall, overall_raw, predictions, entry, targets, result, engine>>

SentimentStep(next) ==
    /\ pc = "sentiment"
    /\ \E e \in Noise :
         sentiment' = get_overall_sentiment(news, data, "market_sentiment" \in raises, e)
    /\ pc' = next
    /\ UNCHANGED <<data, metrics, news, raises, technical, fundamental, momentum,
                   overall, overall_raw, predictions, entry, targets, result, engine>>

OverallStep(next) ==
    /\ pc = "overall"
    /\ \E e \in Noise :
         /\ overall_raw' = OverallRaw(technical, fundamental, sentiment, momentum, e)
         /\ overall' = calculate_overall_score(technical, fundamental, sentiment,
                                               momentum, e)
    /\ pc' = next
    /\ UNCHANGED <<data, metrics, news, raises, technical, fundamental, sentiment,
                   momentum, predictions, entry, targets, result, engine>>

\* numpyPrice: whether the caller may pass a numpy float, a Python float, or either.
TargetsStep(next, numpyPrice) ==
    /\ pc = "targets"
    /\ \E isNumpy \in numpyPrice, e1 \in Noise, e2 \in Noise, e3 \in Noise :
         targets' = calculate_target_price(data.close, overall.overall_score,
                                           isNumpy, e1, e2, e3)
    /\ pc' = next
    /\ UNCHANGED <<data, metrics, news, raises, technical, fundamental, sentiment,
                   momentum, overall, overall_raw, predictions, entry, result, engine>>

\* The columns predict_short_term assigns (lines 38-41) once past its guard.
ShortTermScratch(d) ==
    IF d.n = 0 \/ d.n < MinShortTermRows THEN {}
    ELSE {"returns", "ma_5", "ma_20", "volume_ratio"}

\* The column predict_long_term assigns (line 111) once past its guard.
LongTermScratch(d) ==
    IF d.n = 0 \/ d.n < MinLongTermRows THEN {} ELSE {"returns"}

\* A variant in which the routine assigns the columns to the frame it was
\* given.
AfterScratchWrites_NoCopy(d, written) == [d EXCEPT !.columns = @ \cup written]

\* The caller's frame after a routine assigned the columns `written`: the
\* routine works on `df = data.copy()`, so the frame it was given keeps its
\* rows, columns and values.
AfterScratchWrites(d, written) == d

\* The three forecasts of a run, for horizons drawn from the given sets.
ForecastStep(next, Days, Weeks, Months) ==
    /\ pc = "predictions"
    /\ \E days \in Days, weeks \in Weeks, months \in Months,
          e1 \in Noise, e2 \in Noise, e3 \in Noise :
         predictions' =
             [ tomorrow |-> predict_short_term(data, days, "short_term" \in raises, e1),
               next_week |-> predict_medium_term(data, weeks, "short_term" \in raises, e2),
               long_term |-> predict_long_term(data, months, "long_term" \in raises, e3) ]
    \* the two calls of predict_short_term, then predict_long_term
    /\ data' = AfterScratchWrites(
                   AfterScratchWrites(
                       AfterScratchWrites(data, ShortTermScratch(data)),
                       ShortTermScratch(data)),
                   LongTermScratch(data))
    /\ pc' = next
    /\ UNCHANGED <<metrics, news, raises, technical, fundamental, sentiment,
                   momentum, overall, overall_raw, entry, targets, result, engine>>

\* analyze_stock asks for 1 day, 1 week and 12 months.
PredictionsStep(next) == ForecastStep(next, {1}, {1}, {12})

\* A variant in which the entry classifier is handed the technical score.
EntryStep_TechnicalScore(next) ==
    /\ pc = "entry"
    /\ \E e \in Noise :
         entry' = identify_entry_point(data, technical.score, "entry" \in raises, e)
    /\ pc' = next
    /\ UNCHANGED <<data, metrics, news, raises, technical, fundamental, sentiment,
                   momentum, overall, overall_raw, predictions, targets, result, engine>>

EntryStep(next) ==
    /\ pc = "entry"
    /\ \E e \in Noise :
         entry' = identify_entry_point(data, overall.overall_score,
                                       "entry" \in raises, e)
    /\ pc' = next
    /\ UNCHANGED <<data, metrics, news, raises, technical, fundamental, sentiment,
                   momentum, overall, overall_raw, predictions, targets, result, engine>>

----------------------------------------------------------------------------
(* Specification of one call of calculate_technical_score *)

\* Series the technical scorer is called with: short ones, and full ones whose
\* readings sit on, below and above every threshold the scorer compares with.
TechnicalSeries ==
    { [BaseSeries EXCEPT !.n = k] : k \in {0, 1, 30, 49} }
    \cup
    { [BaseSeries EXCEPT !.n = k, !.rsi = r, !.macd_line = m,
                         !.close = c, !.sma_50 = s50,
                         !.bb_high = 100000 + w, !.bb_low = 100000 - w,
                         !.volume = v, !.adx = a] :
        k \in {50, MaxRows},
        r \in {25000, 30000, 35000, 39996, 40000, 50000, 60000, 65000, 70000, 75000},
        m \in {-5, 0, 5},
        c \in {95000, 96000, 99000, 100000, 101000, 104000, 105000},
        s50 \in {99000, 100000, 101000},
        w \in {0, 4000},
        v \in {999, 1000, 1001},
        a \in {20000, 25000, 25004, 30000} }

InitTechnical ==
    /\ pc = "technical"
    /\ data \in TechnicalSeries
    /\ raises \in {{}, {"technical"}}
    /\ metrics = EmptyDict
    /\ news = [kind |-> "none"]
    /\ technical = Unset /\ fundamental = Unset /\ sentiment = Unset
    /\ momentum = Unset /\ overall = Unset /\ overall_raw = 0
    /\ predictions = Unset /\ entry = Unset /\ targets = Unset /\ result = Unset
    /\ EngineIdle

CallTechnical == TechnicalStep("returned")

NextTechnical == CallTechnical

SpecTechnical == InitTechnical /\ [][NextTechnical]_vars

TechnicalComputed ==
    /\ IsSet(technical)
    /\ data.n >= 50
    /\ "technical" \notin raises

\* The RSI award as the claim states it.
ClaimedRsiAward(rsi) ==
    IF 40000 < rsi /\ rsi < 60000 THEN 20
    ELSE IF 30000 < rsi /\ rsi < 70000 THEN 15
    ELSE 0

\* The five other awards as the claim states them, with the Bollinger band
\* closed or open at its ends.
ClaimedOtherAwards(d, closedBand) ==
    (IF d.macd_line > d.signal_line THEN 15 ELSE 0)
    + (IF d.close > d.sma_20 /\ d.sma_20 > d.sma_50 THEN 25
       ELSE IF d.close > d.sma_20 THEN 15 ELSE 0)
    + (IF (IF closedBand THEN d.bb_low <= d.close /\ d.close <= d.bb_high
                         ELSE d.bb_low < d.close /\ d.close < d.bb_high)
       THEN IF d.close > d.bb_mid THEN 20 ELSE 10
       ELSE 0)
    + (IF d.volume > d.avg_volume THEN 10 ELSE 0)
    + (IF d.adx > 25000 THEN 10 ELSE 0)

\* C4: the RSI award is 20 strictly inside (40,60), otherwise 15 strictly inside
\* (30,70), otherwise 0: the technical score is the claimed RSI award plus the
\* awards of the five other indicators.
C4_RsiAward ==
    TechnicalComputed =>
        technical.score =
            100 * (ClaimedRsiAward(data.rsi) + MacdBlock(data).score
                   + MovingAverageBlock(data).score + BollingerBlock(data).score
                   + VolumeBlock(data).score + AdxBlock(data).score)

\* C5 as stated: on at least 50 rows without failure the score is
\* 100 * (sum of six independent awards) / 100, the Bollinger award being given
\* whenever the price is within the closed band [lower, upper].
C5_ClosedBand ==
    TechnicalComputed =>
        /\ technical.score =
               100 * (RsiBlock(data).score + ClaimedOtherAwards(data, TRUE))
        /\ TechnicalTally(data).max_score = 100

\* C5 amended: the same, the Bollinger award being given only strictly inside
\* the open band (lower, upper).
C5_OpenBand ==
    TechnicalComputed =>
        /\ technical.score =
               100 * (RsiBlock(data).score + ClaimedOtherAwards(data, FALSE))
        /\ TechnicalTally(data).max_score = 100

\* The price sits exactly on the upper band of a band of positive width: no
\* Bollinger award, every other indicator at its best.
C5_Witness ==
    /\ TechnicalComputed
    /\ data.close = data.bb_high /\ data.bb_low < data.bb_high
    /\ data.rsi = 50000 /\ data.macd_line > data.signal_line
    /\ data.sma_20 > data.sma_50 /\ data.volume > data.avg_volume
    /\ data.adx > 25000
    /\ technical.score = 7500

\* C6: fewer than 50 rows (the empty series included) give exactly score 50.0
\* and an empty indicator snapshot.
C6_ShortSeriesNeutral ==
    (IsSet(technical) /\ data.n < 50) =>
        /\ technical.score = 5000
        /\ DOMAIN technical.indicators = {}
        /\ DOMAIN technical = {"score", "indicators"}

C6_Witness ==
    /\ IsSet(technical) /\ data.n = 49 /\ raises = {}
    /\ technical.score = 5000 /\ technical.indicators = EmptyDict

----------------------------------------------------------------------------
(* Specification of one call of calculate_fundamental_score *)

\* The keys get_financial_metrics returns.
MetricKeys ==
    { "pe_ratio", "forward_pe", "peg_ratio", "price_to_book", "price_to_sales",
      "debt_to_equity", "current_ratio", "roe", "roa", "profit_margin",
      "operating_margin", "market_cap", "enterprise_value", "beta",
      "dividend_yield", "52_week_high", "52_week_low", "avg_volume",
      "revenue_growth", "earnings_growth" }

ScoredKeySet == { ScoredKeys[i] : i \in 1..Len(ScoredKeys) }

\* Every metric in its most favourable tier.
BestMetrics ==
    [ pe_ratio |-> Num(1500000), peg_ratio |-> Num(50000),
      price_to_book |-> Num(200000), debt_to_equity |-> Num(30000),
      roe |-> Num(20000), profit_margin |-> Num(25000),
      revenue_growth |-> Num(30000), dividend_yield |-> Num(3000),
      beta |-> Num(100000) ]

\* Every metric in its second tier (no tier for the two single-tier metrics).
SecondMetrics ==
    [ pe_ratio |-> Num(3000000), peg_ratio |-> Num(150000),
      price_to_book |-> Num(400000), debt_to_equity |-> Num(70000),
      roe |-> Num(12000), profit_margin |-> Num(15000),
      revenue_growth |-> Num(15000), dividend_yield |-> Num(1000),
      beta |-> Num(200000) ]

\* The values a single metric is swept through: None, zero, a negative value,
\* and values on, below and above each tier bound.
SweepValues(k) ==
    {None, Num(0), Num(-100000)} \cup
    { Num(x) : x \in
        CASE k = "pe_ratio" -> {1, 500000, 700000, 1000000, 1500000, 2500000,
                                3000000, 3500000, 4000000}
          [] k = "peg_ratio" -> {50000, 100000, 150000, 200000, 250000, 300000}
          [] k = "price_to_book" -> {200000, 300000, 400000, 500000, 600000}
          [] k = "debt_to_equity" -> {30000, 50000, 70000, 100000, 150000, 200000}
          [] k = "roe" -> {3000, 5000, 7000, 10000, 12000, 15000, 20000, 15004}
          [] k = "profit_margin" -> {3000, 5000, 7000, 10000, 15000, 20000, 25000}
          [] k = "revenue_growth" -> {3000, 5000, 7000, 10000, 15000, 20000, 30000}
          [] k = "dividend_yield" -> {1000, 2000, 3000}
          [] OTHER -> {30000, 50000, 100000, 150000, 200000} }

Restrict(f, keys) == [ k \in keys |-> f[k] ]

\* Maps the fundamental scorer is called with: the empty map, the map of the
\* provider without fundamentals (every key None), every subset of the metrics
\* at the best and at the second tier, and single-metric sweeps alone and
\* within the best map.
FundamentalMaps ==
    { EmptyDict, [ k \in MetricKeys |-> None ] }
    \cup { Restrict(BestMetrics, keys) : keys \in SUBSET ScoredKeySet }
    \cup { Restrict(SecondMetrics, keys) : keys \in SUBSET ScoredKeySet }
    \cup UNION { { [ Restrict(BestMetrics, {k}) EXCEPT ![k] = v ] :
                     v \in SweepValues(k) } : k \in ScoredKeySet }
    \cup UNION { { [ BestMetrics EXCEPT ![k] = v ] :
                     v \in SweepValues(k) } : k \in ScoredKeySet }

InitFundamental ==
    /\ pc = "fundamental"
    /\ metrics \in FundamentalMaps
    /\ raises \in {{}, {"fundamental"}}
    /\ data = BaseSeries
    /\ news = [kind |-> "none"]
    /\ technical = Unset /\ fundamental = Unset /\ sentiment = Unset
    /\ momentum = Unset /\ overall = Unset /\ overall_raw = 0
    /\ predictions = Unset /\ entry = Unset /\ targets = Unset /\ result = Unset
    /\ EngineIdle

CallFundamental == FundamentalStep("returned")

NextFundamental == CallFundamental

SpecFundamental == InitFundamental /\ [][NextFundamental]_vars

FundamentalComputed ==
    /\ IsSet(fundamental)
    /\ DOMAIN metrics # {}
    /\ "fundamental" \notin raises

\* The tier table of the claim: the points of metric k at optional value v.
TablePoints(k, v) ==
    IF IsNone(v) THEN 0
    ELSE LET x == Val(v) IN
      CASE k = "pe_ratio" ->
             IF x <= 0 THEN 0
             ELSE IF 1000000 < x /\ x < 2500000 THEN 15
             ELSE IF 500000 < x /\ x < 3500000 THEN 10
             ELSE 5
        [] k = "peg_ratio" ->
             IF x <= 0 THEN 0
             ELSE IF x < 100000 THEN 15
             ELSE IF x < 200000 THEN 10
             ELSE IF x < 300000 THEN 5 ELSE 0
        [] k = "price_to_book" ->
             IF x <= 0 THEN 0
             ELSE IF x < 300000 THEN 10
             ELSE IF x < 500000 THEN 5 ELSE 0
        [] k = "debt_to_equity" ->
             IF x < 50000 THEN 10
             ELSE IF x < 100000 THEN 7
             ELSE IF x < 200000 THEN 3 ELSE 0
        [] k = "roe" ->
             IF x > 15000 THEN 15
             ELSE IF x > 10000 THEN 10
             ELSE IF x > 5000 THEN 5 ELSE 0
        [] k = "profit_margin" ->
             IF x > 20000 THEN 10
             ELSE IF x > 10000 THEN 7
             ELSE IF x > 5000 THEN 3 ELSE 0
        [] k = "revenue_growth" ->
             IF x > 20000 THEN 15
             ELSE IF x > 10000 THEN 10
             ELSE IF x > 5000 THEN 5 ELSE 0
        [] k = "dividend_yield" -> IF x > 2000 THEN 5 ELSE 0
        [] k = "beta" -> IF 50000 < x /\ x < 150000 THEN 5 ELSE 0

RECURSIVE TableSum(_, _)
TableSum(m, i) ==
    IF i = 0 THEN 0
    ELSE TablePoints(ScoredKeys[i], Get(m, ScoredKeys[i], None)) + TableSum(m, i - 1)

\* The largest award of a metric in the claim's table.
TableMax(k) ==
    CASE k \in {"pe_ratio", "peg_ratio", "roe", "revenue_growth"} -> 15
      [] k \in {"price_to_book", "debt_to_equity", "profit_margin"} -> 10
      [] OTHER -> 5

AllInBestTier(m) ==
    \A i \in 1..Len(ScoredKeys) :
        TablePoints(ScoredKeys[i], Get(m, ScoredKeys[i], None)) = TableMax(ScoredKeys[i])

\* C7: an empty metrics map gives exactly score 50.0 with an empty detail
\* mapping; a map with each of the 9 scored metrics in its most favourable tier
\* gives score 100.0.
C7_EmptyAndBest ==
    IsSet(fundamental) =>
        /\ DOMAIN metrics = {} =>
              /\ fundamental.score = 5000
              /\ DOMAIN fundamental.analysis = {}
              /\ DOMAIN fundamental = {"score", "analysis"}
        /\ (AllInBestTier(metrics) /\ "fundamental" \notin raises) =>
              fundamental.score = 10000

C7_Witness ==
    /\ IsSet(fundamental) /\ raises = {}
    /\ metrics = BestMetrics
    /\ fundamental.score = 10000
    /\ DOMAIN fundamental.analysis = ScoredKeySet

\* C8: for every non-empty metrics map the score is the sum of the table's tier
\* points over a denominator of 100 that does not depend on which metrics are
\* present; an absent (or None) metric contributes 0.
C8_TableOverHundred ==
    FundamentalComputed =>
        /\ fundamental.score = 100 * TableSum(metrics, Len(ScoredKeys))
        /\ FundamentalTally(metrics).max_score = 100

\* Two metrics present, seven absent: 10 points for a P/E of 30, 10 for a ROE
\* of 12%, over the full denominator.
C8_Witness ==
    /\ FundamentalComputed
    /\ DOMAIN metrics = {"pe_ratio", "roe"}
    /\ metrics["pe_ratio"] = Num(3000000) /\ metrics["roe"] = Num(12000)
    /\ fundamental.score = 2000

----------------------------------------------------------------------------
(* Specification of one call of calculate_momentum_score *)

\* Series the momentum scorer is called with.  The last close 117.81 is exactly
\* 2% above 115.50, 5% above 112.20 and 10% above 107.10, so every return sits
\* below, on and above each of its two tier bounds.
MomentumSeries ==
    { [BaseSeries EXCEPT !.n = k] : k \in {0, 1, 20, 29} }
    \cup
    { [BaseSeries EXCEPT !.n = k, !.close = 117810, !.close_2 = c2,
                         !.close_6 = c6, !.close_21 = c21] :
        k \in {30, 49, MaxRows},
        c2 \in {120000, 117810, 117000, 115500, 115000},
        c6 \in {120000, 117810, 115000, 112200, 110000},
        c21 \in {120000, 117810, 110000, 107100, 100000} }

InitMomentum ==
    /\ pc = "momentum"
    /\ data \in MomentumSeries
    /\ raises \in {{}, {"momentum"}}
    /\ metrics = EmptyDict
    /\ news = [kind |-> "none"]
    /\ technical = Unset /\ fundamental = Unset /\ sentiment = Unset
    /\ momentum = Unset /\ overall = Unset /\ overall_raw = 0
    /\ predictions = Unset /\ entry = Unset /\ targets = Unset /\ result = Unset
    /\ EngineIdle

CallMomentum == MomentumStep("returned")

NextMomentum == CallMomentum

SpecMomentum == InitMomentum /\ [][NextMomentum]_vars

\* The points of the claim, from the three returns as exact fractions.
ClaimedMomentumPoints(d) ==
    LET up(base, pct) == (d.close - base) * 100 > pct * base
    IN  (IF up(d.close_2, 2) THEN 10 ELSE IF up(d.close_2, 0) THEN 5 ELSE 0)
        + (IF up(d.close_6, 5) THEN 20 ELSE IF up(d.close_6, 0) THEN 10 ELSE 0)
        + (IF up(d.close_21, 10) THEN 20 ELSE IF up(d.close_21, 0) THEN 10 ELSE 0)

\* C9: fewer than 30 rows give the fallback 50.0; otherwise (the computation
\* not failing) the score is 100 * points / 50 with the three tiered awards;
\* the score is always a multiple of 10 in [0,100].
C9_MomentumScore ==
    IsSet(momentum) =>
        /\ data.n < 30 => momentum.score = 5000
        /\ (data.n >= 30 /\ "momentum" \notin raises) =>
              momentum.score * 50 = 100 * 100 * ClaimedMomentumPoints(data)
        /\ momentum.score % 1000 = 0
        /\ 0 <= momentum.score /\ momentum.score <= 10000

\* Exactly +2% over one day (5 points), more than +5% over five days (20) and
\* exactly +10% over twenty days (10): 35 of 50 points.
C9_Witness ==
    /\ IsSet(momentum) /\ data.n = 30 /\ raises = {}
    /\ data.close = 117810 /\ data.close_2 = 115500
    /\ data.close_6 = 110000 /\ data.close_21 = 107100
    /\ momentum.score = 7000

----------------------------------------------------------------------------
(* Specification of one call of calculate_overall_score *)

\* Component scores on every rating bound, plus 0.10 (whose weighted share
\* 0.035 is a rounding tie) and sentiment scores that put the blend 0.01 and
\* 0.004 below a bound.
CombinerScores == {0, 3500, 5000, 6500, 8000, 10000}

InitCombiner ==
    /\ pc = "overall"
    /\ technical \in { [score |-> t] : t \in CombinerScores \cup {10} }
    /\ fundamental \in { [score |-> f] : f \in CombinerScores }
    /\ sentiment \in { [overall_sentiment_score |-> x] :
                         x \in CombinerScores \cup {3495, 7995, 7998} }
    /\ momentum \in { [score |-> m] : m \in CombinerScores }
    /\ data = BaseSeries
    /\ metrics = EmptyDict
    /\ news = [kind |-> "none"]
    /\ raises = {}
    /\ overall = Unset /\ overall_raw = 0
    /\ predictions = Unset /\ entry = Unset /\ targets = Unset /\ result = Unset
    /\ EngineIdle

CallOverall == OverallStep("returned")

NextCombiner == CallOverall

SpecCombiner == InitCombiner /\ [][NextCombiner]_vars

\* 0.35*T + 0.35*F + 0.20*S + 0.10*M of the component scores the combiner
\* reports, in ten-thousandths.
ClaimedBlend ==
    35 * overall.component_scores.technical
    + 35 * overall.component_scores.fundamental
    + 20 * overall.component_scores.sentiment
    + 10 * overall.component_scores.momentum

CombinerReturned ==
    /\ IsSet(overall)
    /\ overall.component_scores.technical = technical.score
    /\ overall.component_scores.fundamental = fundamental.score
    /\ overall.component_scores.sentiment = sentiment.overall_sentiment_score
    /\ overall.component_scores.momentum = momentum.score

\* C1 as stated: overall_score is exactly 0.35*T + 0.35*F + 0.20*S + 0.10*M.
C1_ExactBlend ==
    IsSet(overall) =>
        /\ CombinerReturned
        /\ overall.overall_score * 100 = ClaimedBlend

\* C1 amended: overall_score is 0.35*T + 0.35*F + 0.20*S + 0.10*M rounded to
\* two decimals, so within 0.005 of it.
C1_RoundedBlend ==
    IsSet(overall) =>
        /\ CombinerReturned
        /\ Abs(overall.overall_score * 100 - ClaimedBlend) <= 50

\* T = F = M = 80.0 and S = 79.98 blend to 79.996, reported as 80.0.
C1_Witness ==
    /\ CombinerReturned
    /\ technical.score = 8000 /\ fundamental.score = 8000
    /\ sentiment.overall_sentiment_score = 7998 /\ momentum.score = 8000
    /\ overall.overall_score = 8000

\* C3: the rating bounds are closed below and rating and stars agree, on the
\* blend `overall` the combiner compares (the weighted sum as computed):
\* >= 80 Strong Buy / 5, [65,80) Buy / 4, [50,65) Hold / 3, [35,50) Sell / 2,
\* below 35 Strong Sell / 1.
C3_RatingBounds ==
    IsSet(overall) =>
        /\ Abs(overall_raw - 100 * ClaimedBlend) <= 1
        /\ overall_raw >= 80000000 =>
              overall.rating = "Strong Buy" /\ overall.stars = 5
        /\ (65000000 <= overall_raw /\ overall_raw < 80000000) =>
              overall.rating = "Buy" /\ overall.stars = 4
        /\ (50000000 <= overall_raw /\ overall_raw < 65000000) =>
              overall.rating = "Hold" /\ overall.stars = 3
        /\ (35000000 <= overall_raw /\ overall_raw < 50000000) =>
              overall.rating = "Sell" /\ overall.stars = 2
        /\ overall_raw < 35000000 =>
              overall.rating = "Strong Sell" /\ overall.stars = 1

\* A blend of exactly 80.0 is rated Strong Buy with 5 stars.
C3_Witness ==
    /\ IsSet(overall)
    /\ overall_raw = 80000000
    /\ overall.rating = "Strong Buy" /\ overall.stars = 5
    /\ overall.overall_score = 8000

----------------------------------------------------------------------------
(* Specification of one call of calculate_target_price *)

\* Prices: 100.00, prices whose target or stop-loss has more than two
\* decimals or sits on a rounding tie (0.004, 100.01, 282.032, 12.345), 0 and
\* negative prices.
TargetPrices == {-100000, -12345, 0, 4, 12345, 100000, 100010, 282032}

\* Scores on, just below and above every tier bound.
TargetScores == {0, 4999, 5000, 6499, 6500, 6999, 7000, 7999, 8000, 8500, 10000}

InitTargets ==
    /\ pc = "targets"
    /\ data \in { [BaseSeries EXCEPT !.close = p] : p \in TargetPrices }
    /\ overall \in { [overall_score |-> x] : x \in TargetScores }
    /\ overall_raw = 0
    /\ metrics = EmptyDict
    /\ news = [kind |-> "none"]
    /\ raises = {}
    /\ technical = Unset /\ fundamental = Unset /\ sentiment = Unset
    /\ momentum = Unset
    /\ predictions = Unset /\ entry = Unset /\ targets = Unset /\ result = Unset
    /\ EngineIdle

CallTargets == TargetsStep("returned", BOOLEAN)

NextTargets == CallTargets

SpecTargets == InitTargets /\ [][NextTargets]_vars

\* The upside and the downside of the claim, in percent.
ClaimedUpside(score) ==
    IF score >= 8000 THEN 25 ELSE IF score >= 6500 THEN 15
    ELSE IF score >= 5000 THEN 10 ELSE 5

ClaimedDownside(score) ==
    IF score >= 7000 THEN 8 ELSE IF score >= 5000 THEN 10 ELSE 15

TargetsReturned == IsSet(targets) /\ data.close > 0

\* C10 as stated: target_price = price * (1 + upside), stop_loss = price *
\* (1 - downside), risk_reward_ratio = upside / downside, exactly; price 100
\* and score 85 give 125.00, 92.00, 25.0, 8.0 and 3.125.
C10_ExactTargets ==
    TargetsReturned =>
        LET up == ClaimedUpside(overall.overall_score)
            down == ClaimedDownside(overall.overall_score)
        IN  /\ targets.target_price * 1000 = data.close * (100 + up)
            /\ targets.stop_loss * 1000 = data.close * (100 - down)
            /\ targets.upside_potential = up * 100
            /\ targets.downside_risk = down * 100
            /\ targets.risk_reward_ratio * down = up * 100
            /\ (data.close = 100000 /\ overall.overall_score = 8500) =>
                  /\ targets.target_price = 12500 /\ targets.stop_loss = 9200
                  /\ targets.risk_reward_ratio * 10 = 3125

\* C10 amended: every returned value is the stated quantity rounded to two
\* decimals; price 100 and score 85 give 125.00, 92.00, 25.0, 8.0 and a
\* risk_reward_ratio of 3.13 or 3.12 (3.125 rounded), never 3.125.
C10_RoundedTargets ==
    TargetsReturned =>
        LET up == ClaimedUpside(overall.overall_score)
            down == ClaimedDownside(overall.overall_score)
        IN  /\ Abs(targets.target_price * 1000 - data.close * (100 + up)) <= 500
            /\ Abs(targets.stop_loss * 1000 - data.close * (100 - down)) <= 500
            /\ targets.upside_potential = up * 100
            /\ targets.downside_risk = down * 100
            /\ 2 * Abs(targets.risk_reward_ratio * down - up * 100) <= down
            /\ (data.close = 100000 /\ overall.overall_score = 8500) =>
                  /\ targets.target_price = 12500 /\ targets.stop_loss = 9200
                  /\ targets.upside_potential = 2500
                  /\ targets.downside_risk = 800
                  /\ targets.risk_reward_ratio \in {312, 313}

C10_Witness ==
    /\ TargetsReturned
    /\ data.close = 100000 /\ overall.overall_score = 8500
    /\ targets.target_price = 12500 /\ targets.stop_loss = 9200
    /\ targets.upside_potential = 2500 /\ targets.downside_risk = 800
    /\ targets.risk_reward_ratio = 313

\* What a call that surfaced an error to its caller would leave in the slot of
\* its result: no operation of the engine produces it.
RaisedToCaller == [raised |-> TRUE]

\* C11 as stated: a call with current_price <= 0 surfaces a hard error to its
\* caller; it returns neither a target/stop-loss result nor an empty result.
C11_HardErrorOnBadPrice ==
    (pc = "returned" /\ data.close <= 0) => targets = RaisedToCaller

----------------------------------------------------------------------------
(* Specification of one call of identify_entry_point *)

\* Series the entry classifier is called with: short ones, and full ones with
\* the price below, on and above SMA20, SMA20 below, on and above SMA50, the
\* classifier's RSI at 35, 40, 50, 100 and undefined (no move in 14 rows), and
\* the price at 0%, 37.5%, 40%, 50%, 62.5% and 100% of its 52-week range or
\* in a range of zero width.  The last close lies within the range.
EntrySeries ==
    { [BaseSeries EXCEPT !.n = k] : k \in {0, 1, 49} }
    \cup
    { d \in { [BaseSeries EXCEPT !.n = k, !.close = c, !.sma_50 = s50,
                                 !.gain_14 = gl[1], !.loss_14 = gl[2],
                                 !.high_52w = hl[1], !.low_52w = hl[2]] :
                k \in {50, MaxRows},
                c \in {95000, 100000, 105000},
                s50 \in {99000, 100000, 101000},
                gl \in { <<350, 650>>, <<400, 600>>, <<500, 500>>, <<500, 0>>, <<0, 0>> },
                hl \in { <<120000, 80000>>, <<117500, 80000>>, <<105000, 95000>>,
                         <<100000, 100000>> } } :
        d.low_52w <= d.close /\ d.close <= d.high_52w }

\* Overall scores on, just above and away from every bound the classifier uses.
EntryScores == {0, 5000, 5001, 6000, 6001, 7000, 7001, 7200, 10000}

InitEntry ==
    /\ pc = "entry"
    /\ data \in EntrySeries
    /\ overall \in { [overall_score |-> x] : x \in EntryScores }
    /\ raises \in {{}, {"entry"}}
    /\ overall_raw = 0
    /\ metrics = EmptyDict
    /\ news = [kind |-> "none"]
    /\ technical = Unset /\ fundamental = Unset /\ sentiment = Unset
    /\ momentum = Unset
    /\ predictions = Unset /\ entry = Unset /\ targets = Unset /\ result = Unset
    /\ EngineIdle

CallEntry == EntryStep("returned")

NextEntry == CallEntry

SpecEntry == InitEntry /\ [][NextEntry]_vars

\* The classifier ran to its end: at least 50 rows and no computation failure.
EntryComputed == IsSet(entry) /\ data.n >= MinEntryRows /\ "entry" \notin raises

\* The tags of a returned entry, as a set.
EntryTags == { entry.signals[i] : i \in 1..Len(entry.signals) }

\* C12: with at least 50 rows and no failure the label follows the priority
\* order: score > 70 and at least 2 tags 'Strong Buy Now'; else score > 60 and
\* (rsi < 40 or range_position < 40) 'Good Entry Point'; else score > 50
\* 'Consider Buying'; else 'Wait for Better Entry'.  A score of 50 or less
\* gives 'Wait for Better Entry' whatever the tags.
C12_EntryLabelPriority ==
    EntryComputed =>
        LET score == overall.overall_score
            low == EntryRsiBelow40(data) \/ RangePositionBelow40(data)
            label == entry.entry_signal
        IN  /\ (score > 7000 /\ Len(entry.signals) >= 2) <=> label = "Strong Buy Now"
            /\ (~(score > 7000 /\ Len(entry.signals) >= 2) /\ score > 6000 /\ low)
                   <=> label = "Good Entry Point"
            /\ (~(score > 7000 /\ Len(entry.signals) >= 2) /\ ~(score > 6000 /\ low)
                  /\ score > 5000) <=> label = "Consider Buying"
            /\ score <= 5000 => label = "Wait for Better Entry"

\* A score of exactly 50 with two tags is still told to wait.
C12_Witness ==
    /\ EntryComputed
    /\ overall.overall_score = 5000
    /\ entry.signals = <<"Near 52-week low", "RSI oversold">>
    /\ entry.entry_signal = "Wait for Better Entry"

\* C13: price < SMA20 < SMA50, RSI < 40 and a score above 70 give the label
\* 'Strong Buy Now' with at least the tags 'Price below MA with good
\* fundamentals' and 'RSI oversold', in that order; each of the four tags is
\* present exactly when its condition holds, and the list keeps the order
\* range, moving averages, RSI, uptrend without repeating a tag.
C13_TagsAndStrongBuy ==
    EntryComputed =>
        LET score == overall.overall_score
            below == data.close < data.sma_20 /\ data.sma_20 < data.sma_50
            order == [ t \in { "Near 52-week low", "Price below MA with good fundamentals",
                               "RSI oversold", "Strong uptrend with high score" } |->
                         CASE t = "Near 52-week low" -> 1
                           [] t = "Price below MA with good fundamentals" -> 2
                           [] t = "RSI oversold" -> 3
                           [] OTHER -> 4 ]
        IN  /\ "Near 52-week low" \in EntryTags <=> RangePositionBelow40(data)
            /\ "Price below MA with good fundamentals" \in EntryTags
                   <=> (below /\ score > 6000)
            /\ "RSI oversold" \in EntryTags <=> EntryRsiBelow40(data)
            /\ "Strong uptrend with high score" \in EntryTags
                   <=> (data.close > data.sma_20 /\ score > 7000)
            /\ EntryTags \subseteq DOMAIN order
            /\ \A i \in 1..Len(entry.signals), j \in 1..Len(entry.signals) :
                   i < j => order[entry.signals[i]] < order[entry.signals[j]]
            /\ (below /\ EntryRsiBelow40(data) /\ score > 7000) =>
                   /\ entry.entry_signal = "Strong Buy Now"
                   /\ Len(entry.signals) >= 2

\* Price 95 below SMA20 100 below SMA50 101, RSI 35, score 72.
C13_Witness ==
    /\ EntryComputed
    /\ data.close = 95000 /\ data.sma_20 = 100000 /\ data.sma_50 = 101000
    /\ data.gain_14 = 350 /\ data.loss_14 = 650 /\ entry.rsi = 3500
    /\ overall.overall_score = 7200
    /\ ~RangePositionBelow40(data)
    /\ entry.entry_signal = "Strong Buy Now"
    /\ entry.signals = <<"Price below MA with good fundamentals", "RSI oversold">>

----------------------------------------------------------------------------
(* Specification of one use of StockPredictor: the forecasts, then the entry point *)

\* Row counts on and next to every minimum and every window of the predictor.
PredictorRows == {0, 1, 29, 30, 40, 49, 50, 99, 100, 125, 126, 251, 252, MaxRows}

\* The closes 63, 126 and 252 rows back, against a last close of 10.00: growth
\* rates of 0, +-25%, -20%, and a triple of +60%, -50%, -75% whose weighted
\* blend is exactly zero.
GrowthCloses ==
    { <<10000, 10000, 10000>>, <<8000, 12500, 10000>>, <<12500, 8000, 8000>>,
      <<8000, 8000, 8000>>, <<6250, 20000, 40000>> }

\* Standard deviations of the daily returns: 0, 2%, 10%, 12.5% and 15%.
ReturnDeviations == {0, 20000, 100000, 125000, 150000}

\* Series the predictor is called with: every row count, with the mean recent
\* return negative, zero and positive and the volume trend on, below and
\* above 0.8 and 1.2; and with each triple of past closes and each deviation
\* of the returns.
PredictorSeries ==
    { [FlatSeries EXCEPT !.n = k, !.recent_returns = rr, !.volume_trend = vt] :
        k \in PredictorRows, rr \in {-50, 0, 50},
        vt \in {700, 800, 1000, 1200, 1300} }
    \cup
    { [FlatSeries EXCEPT !.n = k, !.close_63 = g[1], !.close_126 = g[2],
                         !.close_252 = g[3], !.returns_std = sd] :
        k \in PredictorRows, g \in GrowthCloses, sd \in ReturnDeviations }

InitPredictor ==
    /\ pc = "predictions"
    /\ data \in PredictorSeries
    /\ overall = [overall_score |-> 7200]
    /\ raises \in { {}, {"short_term"}, {"long_term"}, {"entry"} }
    /\ overall_raw = 0
    /\ metrics = EmptyDict
    /\ news = [kind |-> "none"]
    /\ technical = Unset /\ fundamental = Unset /\ sentiment = Unset
    /\ momentum = Unset
    /\ predictions = Unset /\ entry = Unset /\ targets = Unset /\ result = Unset
    /\ EngineIdle

CallForecasts == ForecastStep("entry", {1, 5}, {1, 4}, {3, 12})

CallEntryPoint == EntryStep("returned")

NextPredictor == CallForecasts \/ CallEntryPoint

SpecPredictor == InitPredictor /\ [][NextPredictor]_vars

\* The forecasts were made.
Forecast == IsSet(predictions)

\* The short- and the medium-term forecast, both made by predict_short_term.
ShortForecasts == { predictions.tomorrow, predictions.next_week }

\* A forecast that ran to its end rather than returning a placeholder.
Computed(f) == "prediction" \notin DOMAIN f

ShortTermComputed ==
    Forecast /\ data.n >= MinShortTermRows /\ "short_term" \notin raises

\* C14: a short-term forecast whose predicted change is exactly zero (the mean
\* of the recent returns is zero) reports predicted_change_pct 0.0 and
\* direction 'Down'; direction is 'Up' only when the predicted change, a
\* positive multiple of that mean, is strictly positive.
C14_ZeroChangeIsDown ==
    ShortTermComputed =>
        \A f \in ShortForecasts :
            /\ Computed(f)
            /\ data.recent_returns = 0 =>
                   f.predicted_change_pct = 0 /\ f.direction = "Down"
            /\ f.direction = "Up" <=> data.recent_returns > 0
            /\ f.direction \in {"Up", "Down"}

\* A flat series of 40 rows: no change forecast, direction 'Down'.
C14_Witness ==
    /\ ShortTermComputed
    /\ data.n = 40 /\ data.recent_returns = 0 /\ data.returns_std = 0
    /\ predictions.tomorrow.predicted_change_pct = 0
    /\ predictions.tomorrow.direction = "Down"
    /\ predictions.tomorrow.predicted_price = predictions.tomorrow.current_price

\* The predicted change of the claim for a horizon of `days`, in
\* hundred-thousandths.
ClaimedChange(days) ==
    data.recent_returns * days *
        (IF data.volume_trend > 1200 THEN 11
         ELSE IF data.volume_trend < 800 THEN 9 ELSE 10)

\* C15: with at least 30 rows, predicted_change = (mean of the last 10 daily
\* returns) * horizon_days, times 1.1 if the mean of the last 5 volume ratios
\* is strictly above 1.2, times 0.9 if strictly below 0.8, unchanged otherwise
\* (also at exactly 1.2 and 0.8); predicted_price = current_price *
\* (1 + predicted_change).  The forecast reports both rounded to two decimals
\* (the change in percent); the medium-term horizon is 7 days per week.
C15_ShortTermFormula ==
    ShortTermComputed =>
        \A f \in ShortForecasts :
            /\ Computed(f)
            /\ LET days == f.timeframe[1]
                   change == ClaimedChange(days)
               IN  /\ Abs(f.predicted_change_pct * 10 - change) <= 5
                   /\ Abs(f.predicted_price * 1000000 - data.close * (100000 + change))
                          <= 500000
        /\ predictions.tomorrow.timeframe[1] \in {1, 5}
        /\ predictions.next_week.timeframe[1] \in {7, 28}

\* Mean return 0.5% over 5 days at a volume trend of exactly 1.2: the change
\* is 2.5%, not raised by a tenth, and 10.00 becomes 10.25.
C15_Witness ==
    /\ ShortTermComputed
    /\ data.recent_returns = 50 /\ data.volume_trend = 1200
    /\ predictions.tomorrow.timeframe[1] = 5
    /\ predictions.tomorrow.predicted_change_pct = 250
    /\ predictions.tomorrow.predicted_price = 1025

LongTermComputed ==
    Forecast /\ data.n >= MinLongTermRows /\ "long_term" \notin raises

\* The growth of the last close over the close `base`, in thousandths.
ClaimedGrowth(base) == ((data.close - base) * 1000) \div base

\* 0.5 * growth_3m + 0.3 * growth_6m + 0.2 * growth_12m of the claim, in
\* ten-thousandths, with the fallbacks for short series.
ClaimedGrowthBlend ==
    LET g3 == ClaimedGrowth(data.close_63)
        g6 == IF data.n < 126 THEN g3 ELSE ClaimedGrowth(data.close_126)
        g12 == IF data.n < 252 THEN g6 ELSE ClaimedGrowth(data.close_252)
    IN  5 * g3 + 3 * g6 + 2 * g12

\* C16: with at least 100 rows, predicted_growth = (0.5 * growth_3m + 0.3 *
\* growth_6m + 0.2 * growth_12m) * 4 * months / 12 over the closes 63, 126 and
\* 252 rows back, growth_6m being growth_3m below 126 rows and growth_12m
\* being growth_6m below 252 rows; direction is 'Bullish' iff predicted_growth
\* is positive, else 'Bearish'.  The forecast reports the growth in percent
\* and the price it leads to, rounded to two decimals.
C16_LongTermFormula ==
    LongTermComputed =>
        LET f == predictions.long_term
            months == f.timeframe[1]
            \* predicted_growth * 3, in ten-thousandths
            growth3 == ClaimedGrowthBlend * months
        IN  /\ Computed(f)
            /\ months \in {3, 12}
            /\ 2 * Abs(f.predicted_change_pct * 3 - growth3) <= 3
            /\ f.annual_growth_rate = ClaimedGrowthBlend * 4
            /\ Abs(f.predicted_price * 300000 - data.close * (30000 + growth3)) <= 150000
            /\ f.direction = "Bullish" <=> growth3 > 0
            /\ f.direction \in {"Bullish", "Bearish"}

\* 100 rows, the close 63 rows back 25% below the last, the closes further
\* back out of reach: all three rates are 25%, 12 months forecast +100%.
C16_Witness ==
    /\ LongTermComputed
    /\ data.n = 100
    /\ data.close_63 = 8000 /\ data.close_126 = 12500 /\ data.close_252 = 10000
    /\ predictions.long_term.timeframe[1] = 12
    /\ predictions.long_term.annual_growth_rate = 10000
    /\ predictions.long_term.predicted_change_pct = 10000
    /\ predictions.long_term.predicted_price = 2000
    /\ predictions.long_term.direction = "Bullish"

\* clamp(0, 100, 100 - stddev(returns) * factor) of the claim, in
\* ten-thousandths (factor 1000 or 800).
ClaimedClamp(factor) ==
    LET x == 1000000 - (data.returns_std * factor) \div 100
    IN  IF x < 0 THEN 0 ELSE IF x > 1000000 THEN 1000000 ELSE x

\* C17: every forecast's confidence lies in [0,100]: the short- and the
\* medium-term one is clamp(0, 100, 100 - stddev(returns) * 1000), the
\* long-term one is clamp(0, 100, 100 - stddev(returns) * 800) * 0.7 and so at
\* most 70 (both reported to two decimals), and every placeholder
\* ('Insufficient data' or 'Error') carries confidence 0.
C17_ConfidenceRange ==
    Forecast =>
        /\ \A f \in ShortForecasts \cup {predictions.long_term} :
               /\ 0 <= f.confidence /\ f.confidence <= 10000
               /\ ~Computed(f) =>
                      /\ f.prediction \in {"Insufficient data", "Error"}
                      /\ f.confidence = 0
        /\ \A f \in ShortForecasts :
               Computed(f) => Abs(f.confidence * 100 - ClaimedClamp(1000)) <= 50
        /\ Computed(predictions.long_term) =>
               /\ Abs(predictions.long_term.confidence * 1000 - 7 * ClaimedClamp(800)) <= 500
               /\ predictions.long_term.confidence <= 7000

\* Returns deviating by 10%: the short-term confidence has just reached 0,
\* the long-term one is (100 - 80) * 0.7 = 14.
C17_Witness ==
    /\ Forecast /\ data.returns_std = 100000
    /\ Computed(predictions.tomorrow) /\ predictions.tomorrow.confidence = 0
    /\ Computed(predictions.next_week) /\ predictions.next_week.confidence = 0
    /\ Computed(predictions.long_term) /\ predictions.long_term.confidence = 1400

\* Whether a result is the 'Insufficient data' placeholder of its routine.
IsInsufficient(r, key) == Get(r, key, "") = "Insufficient data"

\* C18: each routine returns its 'Insufficient data' placeholder exactly when
\* the series is below its own minimum: the short- and the medium-term
\* forecast below 30 rows, the entry classifier below 50, the long-term
\* forecast below 100; from the minimum on it is never returned.
C18_OwnMinimumRows ==
    /\ Forecast =>
          /\ IsInsufficient(predictions.tomorrow, "prediction") <=> data.n < 30
          /\ IsInsufficient(predictions.next_week, "prediction") <=> data.n < 30
          /\ IsInsufficient(predictions.long_term, "prediction") <=> data.n < 100
    /\ IsSet(entry) => (IsInsufficient(entry, "entry_signal") <=> data.n < 50)

\* 50 rows: enough for the short forecasts and the entry classifier, too few
\* for the long-term forecast.
C18_Witness ==
    /\ pc = "returned" /\ Forecast /\ IsSet(entry) /\ data.n = 50
    /\ Computed(predictions.tomorrow) /\ Computed(predictions.next_week)
    /\ predictions.long_term = InsufficientPrediction
    /\ "signals" \in DOMAIN entry

----------------------------------------------------------------------------
(* Specification of one run of StockAnalyzer.analyze_stock *)

\* Largest number of articles in a generated news list.
MaxNews == 2

\* get_financial_metrics: every key present, None where the provider has no value.
FullMetrics(m) == [ k \in MetricKeys |-> IF k \in DOMAIN m THEN m[k] ELSE None ]

\* Every scored metric outside all its tiers.
PoorMetrics ==
    [ pe_ratio |-> Num(10000000), peg_ratio |-> Num(500000),
      price_to_book |-> Num(900000), debt_to_equity |-> Num(300000),
      roe |-> Num(1000), profit_margin |-> Num(1000),
      revenue_growth |-> Num(-5000), dividend_yield |-> Num(0),
      beta |-> Num(250000) ]

PipelineMetrics ==
    { EmptyDict, FullMetrics(EmptyDict), FullMetrics(BestMetrics),
      FullMetrics(SecondMetrics), FullMetrics(PoorMetrics) }

\* A rising year ending at 11.00 on high volume.
BullSeries ==
    [ FlatSeries EXCEPT
        !.close = 11000, !.close_2 = 10700, !.close_6 = 10400, !.close_20 = 9900,
        !.close_21 = 9900, !.sma_20 = 10500, !.sma_50 = 10000,
        !.rsi = 55000, !.macd_line = 5, !.bb_high = 11500, !.bb_low = 9500,
        !.bb_mid = 10500, !.volume = 1600, !.adx = 30000, !.recent_volume = 1600,
        !.recent_returns = 50, !.volume_trend = 1300,
        !.close_63 = 10000, !.close_126 = 8800, !.close_252 = 8000,
        !.high_52w = 11200, !.low_52w = 7900, !.gain_14 = 800, !.loss_14 = 200 ]

\* A falling, volatile year ending at 9.00 on low volume.
BearSeries ==
    [ FlatSeries EXCEPT
        !.close = 9000, !.close_2 = 9200, !.close_6 = 9500, !.close_20 = 10200,
        !.close_21 = 10200, !.sma_20 = 9500, !.sma_50 = 10000,
        !.rsi = 25000, !.macd_line = -5, !.bb_high = 10500, !.bb_low = 9100,
        !.bb_mid = 9800, !.volume = 700, !.recent_volume = 700,
        !.returns_std = 150000, !.recent_returns = -50, !.volume_trend = 700,
        !.close_63 = 10000, !.close_126 = 10000, !.close_252 = 12000,
        !.high_52w = 12000, !.low_52w = 8800, !.gain_14 = 200, !.loss_14 = 800 ]

\* What get_stock_data hands back: n = 0 stands for no frame (the provider
\* failed or had no row); the others are frames of every length class the
\* analysers distinguish.
PipelineSeries ==
    { [FlatSeries EXCEPT !.n = k] : k \in {0, 1, 29, 49, 100, MaxRows} }
    \cup { [BullSeries EXCEPT !.n = k] : k \in {99, 100, 130, MaxRows} }
    \cup { [BearSeries EXCEPT !.n = k] : k \in {100, MaxRows} }

\* The provider's news: a failure, no article, up to MaxNews articles of one
\* extreme polarity, a pair of opposite polarities, and a list longer than the
\* 20 articles that are read.
PipelineNews ==
    { [kind |-> "error"], [kind |-> "none"] }
    \cup { [kind |-> "articles", polarities |-> [i \in 1..k |-> p]] :
             k \in 1..MaxNews, p \in {-1000, 1000} }
    \cup { [kind |-> "articles", polarities |-> <<1000, -1000>>] }
    \cup { [kind |-> "articles",
            polarities |-> [ i \in 1..(NewsLimit + 1) |->
                               IF i > NewsLimit THEN -1000 ELSE 1000 ]] }

\* The computations that fail inside their try block in this run.
PipelineRaises ==
    { {}, {"technical"}, {"fundamental"}, {"market_sentiment"}, {"momentum"},
      {"short_term"}, {"long_term"}, {"entry"},
      {"technical", "fundamental", "market_sentiment", "momentum"},
      {"technical", "fundamental", "market_sentiment", "momentum",
       "short_term", "long_term", "entry"} }

Init ==
    /\ pc = "fetch"
    /\ data \in PipelineSeries
    /\ metrics \in PipelineMetrics
    /\ news \in PipelineNews
    /\ raises \in PipelineRaises
    /\ technical = Unset /\ fundamental = Unset /\ sentiment = Unset
    /\ momentum = Unset /\ overall = Unset /\ overall_raw = 0
    /\ predictions = Unset /\ entry = Unset /\ targets = Unset /\ result = Unset
    /\ EngineIdle

\* data = get_stock_data(..); `if data is None or data.empty: return None`
Fetch ==
    /\ pc = "fetch"
    /\ IF data.n = 0
       THEN result' = None /\ pc' = "done"
       ELSE result' = result /\ pc' = "technical"
    /\ UNCHANGED <<data, metrics, news, raises, technical, fundamental, sentiment,
                   momentum, overall, overall_raw, predictions, entry, targets, engine>>

AnalyzeTechnical == TechnicalStep("fundamental")

AnalyzeFundamental == FundamentalStep("sentiment")

AnalyzeSentiment == SentimentStep("momentum")

AnalyzeMomentum == MomentumStep("overall")

AnalyzeOverall == OverallStep("predictions")

AnalyzePredictions == PredictionsStep("entry")

AnalyzeEntry == EntryStep("targets")

\* current_price = data['Close'].iloc[-1] is a numpy float
AnalyzeTargets == TargetsStep("return", {TRUE})

Return ==
    /\ pc = "return"
    /\ result' = [ current_price |-> RoundNear(data.close, 10, 0),
                   overall_score |-> overall,
                   technical |-> technical,
                   fundamental |-> fundamental,
                   sentiment |-> sentiment,
                   momentum |-> momentum,
                   predictions |-> predictions,
                   entry_point |-> entry,
                   targets |-> targets,
                   metrics |-> metrics ]
    /\ pc' = "done"
    /\ UNCHANGED <<data, metrics, news, raises, technical, fundamental, sentiment,
                   momentum, overall, overall_raw, predictions, entry, targets, engine>>

Next ==
    \/ Fetch
    \/ AnalyzeTechnical
    \/ AnalyzeFundamental
    \/ AnalyzeSentiment
    \/ AnalyzeMomentum
    \/ AnalyzeOverall
    \/ AnalyzePredictions
    \/ AnalyzeEntry
    \/ AnalyzeTargets
    \/ Return

Spec == Init /\ [][Next]_vars

InRange(x) == 0 <= x /\ x <= 10000

\* C2: in every analysis run, each of the four component scores handed to the
\* combiner (on every path, fallbacks included) lies in [0,100], and so does
\* the overall_score the combiner returns.
C2_ScoresInRange ==
    /\ IsSet(technical) => InRange(Get(technical, "score", 5000))
    /\ IsSet(fundamental) => InRange(Get(fundamental, "score", 5000))
    /\ IsSet(sentiment) => InRange(Get(sentiment, "overall_sentiment_score", 5000))
    /\ IsSet(momentum) => InRange(Get(momentum, "score", 5000))
    /\ IsSet(overall) => InRange(overall.overall_score)

\* A run whose combiner was handed both ends of the range: a component at 0,
\* another at 100, with a fallback score among the four.
C2_Witness ==
    /\ pc = "done" /\ result # None
    /\ result.fundamental.score = 10000
    /\ result.momentum.score = 0
    /\ result.technical.score = 5000 /\ "technical" \in raises
    /\ InRange(result.overall_score.overall_score)

\* C19 as stated: for every series the provider can hand back, the empty one
\* included, and every metrics map, analyze_stock produces a result with an
\* overall score and the three predictions.
C19_AlwaysProduces ==
    pc = "done" =>
        /\ result # None
        /\ "overall_score" \in DOMAIN result
        /\ "predictions" \in DOMAIN result
        /\ {"tomorrow", "next_week", "long_term"} \subseteq DOMAIN result.predictions

\* C20: a failure raised inside a component never reaches the caller: each
\* scorer (technical, fundamental, momentum) then returns score 50.0 with an
\* empty detail mapping and each forecast routine returns {'prediction':
\* 'Error', 'confidence': 0}, with nothing partially computed next to the
\* fallback; the run goes on to its result.
C20_FailuresContained ==
    /\ \A slot \in {technical, fundamental, momentum, predictions, result} :
           slot # RaisedToCaller
    /\ (IsSet(technical) /\ "technical" \in raises) =>
           technical = [score |-> 5000, indicators |-> EmptyDict]
    /\ (IsSet(fundamental) /\ "fundamental" \in raises) =>
           fundamental = [score |-> 5000, analysis |-> EmptyDict]
    /\ (IsSet(momentum) /\ "momentum" \in raises) =>
           momentum = [score |-> 5000, momentum |-> EmptyDict]
    /\ (Forecast /\ "short_term" \in raises /\ data.n >= 30) =>
           /\ predictions.tomorrow = [prediction |-> "Error", confidence |-> 0]
           /\ predictions.next_week = [prediction |-> "Error", confidence |-> 0]
    /\ (Forecast /\ "long_term" \in raises /\ data.n >= 100) =>
           predictions.long_term = [prediction |-> "Error", confidence |-> 0]
    /\ (pc = "done" /\ data.n > 0) =>
           /\ result # None
           /\ result.technical = technical /\ result.fundamental = fundamental
           /\ result.momentum = momentum /\ result.predictions = predictions

\* A run on a complete series with full metrics in which every component
\* failed: fallbacks everywhere, and a result all the same.
C20_Witness ==
    /\ pc = "done" /\ data.n = MaxRows
    /\ raises = {"technical", "fundamental", "market_sentiment", "momentum",
                 "short_term", "long_term", "entry"}
    /\ DOMAIN metrics # {}
    /\ result # None
    /\ result.technical = [score |-> 5000, indicators |-> EmptyDict]
    /\ result.fundamental = [score |-> 5000, analysis |-> EmptyDict]
    /\ result.momentum = [score |-> 5000, momentum |-> EmptyDict]
    /\ result.predictions.tomorrow = [prediction |-> "Error", confidence |-> 0]
    /\ result.predictions.long_term = [prediction |-> "Error", confidence |-> 0]

----------------------------------------------------------------------------
(* Specification of one call of get_overall_sentiment *)

\* Series the sentiment analyser is called with: below and from its minimum
\* of 20 rows, quiet, rising and falling.
SentimentSeries ==
    { [FlatSeries EXCEPT !.n = k] : k \in {0, 1, 19, 20, 49, 50, MaxRows} }
    \cup { [BullSeries EXCEPT !.n = k] : k \in {20, MaxRows} }
    \cup { [BearSeries EXCEPT !.n = k] : k \in {20, MaxRows} }

InitSentiment ==
    /\ pc = "sentiment"
    /\ data \in SentimentSeries
    /\ news \in PipelineNews
    /\ raises \in { {}, {"market_sentiment"} }
    /\ metrics = EmptyDict
    /\ technical = Unset /\ fundamental = Unset /\ sentiment = Unset
    /\ momentum = Unset /\ overall = Unset /\ overall_raw = 0
    /\ predictions = Unset /\ entry = Unset /\ targets = Unset /\ result = Unset
    /\ EngineIdle

CallSentiment == SentimentStep("returned")

NextSentiment == CallSentiment

SpecSentiment == InitSentiment /\ [][NextSentiment]_vars

\* C21 as stated: the sentiment score handed to the combiner is a number in
\* [0,100], obtaining it never raises, and when the news fetch fails the
\* overall sentiment score is the neutral 50.0.
C21_NeutralOnNewsFailure ==
    IsSet(sentiment) =>
        /\ sentiment # RaisedToCaller
        /\ InRange(sentiment.overall_sentiment_score)
        /\ news.kind = "error" => sentiment.overall_sentiment_score = 5000

\* C22: no scorer, predictor or sentiment routine changes the price series or
\* the metrics map it is given: across every step of an analysis, failing and
\* fallback calls included, the caller's series keeps its rows, columns and
\* values and the metrics map its entries; derived columns live on private
\* copies only.
C22_InputsUntouched == [][data' = data /\ metrics' = metrics]_vars

\* The end of a run whose forecasts computed their scratch columns: the
\* series still has the provider's columns only.
C22_Witness ==
    /\ pc = "done" /\ result # None
    /\ ShortTermScratch(data) # {} /\ LongTermScratch(data) # {}
    /\ Computed(predictions.tomorrow) /\ Computed(predictions.long_term)
    /\ data.columns = PriceColumns
    /\ result.metrics = metrics /\ DOMAIN metrics = MetricKeys

\* C24: in a run of analyze_stock the combiner is invoked only once the four
\* component results exist; the entry classifier and the target calculator
\* are invoked only once the combiner has returned, and what each of them
\* returns is computed from exactly the overall_score the combiner reported.
C24_CombinerOrdering ==
    /\ (pc = "overall" \/ IsSet(overall)) =>
           /\ IsSet(technical) /\ IsSet(fundamental)
           /\ IsSet(sentiment) /\ IsSet(momentum)
    /\ (pc \in {"entry", "targets"} \/ IsSet(entry) \/ IsSet(targets)) => IsSet(overall)
    /\ IsSet(entry) =>
           \E e \in Noise :
               entry = identify_entry_point(data, overall.overall_score,
                                            "entry" \in raises, e)
    /\ IsSet(targets) =>
           \E e1 \in Noise, e2 \in Noise, e3 \in Noise :
               targets = calculate_target_price(data.close, overall.overall_score,
                                                TRUE, e1, e2, e3)

\* A finished run whose entry point and targets were both computed, from an
\* overall score that differs from the technical score.
C24_Witness ==
    /\ pc = "done" /\ result # None
    /\ "signals" \in DOMAIN entry /\ "target_price" \in DOMAIN targets
    /\ overall.overall_score # technical.score
    /\ result.entry_point = entry /\ result.targets = targets

\* C26: in every combiner result the rating and the stars are those of the
\* reported overall_score: the score is >= 80 exactly when the rating is
\* 'Strong Buy' (5 stars), >= 65 exactly when it is at least 'Buy' (4 stars),
\* >= 50 exactly when it is at least 'Hold' (3 stars) and >= 35 exactly when
\* it is at least 'Sell' (2 stars).
C26_RatingOfReportedScore ==
    IsSet(overall) =>
        /\ overall.overall_score >= 8000 <=> overall.rating = "Strong Buy"
        /\ overall.overall_score >= 6500 <=> overall.rating \in {"Strong Buy", "Buy"}
        /\ overall.overall_score >= 5000 <=>
               overall.rating \in {"Strong Buy", "Buy", "Hold"}
        /\ overall.overall_score >= 3500 <=>
               overall.rating \in {"Strong Buy", "Buy", "Hold", "Sell"}
        /\ overall.overall_score >= 8000 <=> overall.stars = 5
        /\ overall.overall_score >= 6500 <=> overall.stars >= 4
        /\ overall.overall_score >= 5000 <=> overall.stars >= 3
        /\ overall.overall_score >= 3500 <=> overall.stars >= 2

----------------------------------------------------------------------------
(* Specification of one call of StockAnalyzer.should_buy_now *)

\* A variant whose 'YES - Buy' branch starts above 60.
Recommendation_Above60(score, entry_signal) ==
    IF score >= 7000 /\ entry_signal \in {"Strong Buy Now", "Good Entry Point"}
    THEN "YES - Strong Buy"
    ELSE IF score > 6000
            /\ entry_signal \in {"Strong Buy Now", "Good Entry Point", "Consider Buying"}
    THEN "YES - Buy"
    ELSE IF score >= 5000 /\ entry_signal \in {"Strong Buy Now", "Good Entry Point"}
    THEN "MAYBE - Consider"
    ELSE "NO - Wait"

\* The decision logic of should_buy_now.
Recommendation(score, entry_signal) ==
    IF score >= 7000 /\ entry_signal \in {"Strong Buy Now", "Good Entry Point"}
    THEN "YES - Strong Buy"
    ELSE IF score >= 6000
            /\ entry_signal \in {"Strong Buy Now", "Good Entry Point", "Consider Buying"}
    THEN "YES - Buy"
    ELSE IF score >= 5000 /\ entry_signal \in {"Strong Buy Now", "Good Entry Point"}
    THEN "MAYBE - Consider"
    ELSE "NO - Wait"

\* should_buy_now, given what analyze_stock returned.
should_buy_now(analysis) ==
    IF analysis = None THEN [recommendation |-> "Error analyzing stock"]
    ELSE [ recommendation |-> Recommendation(analysis.overall_score.overall_score,
                                             analysis.entry_point.entry_signal),
           score |-> analysis.overall_score.overall_score,
           entry_signal |-> analysis.entry_point.entry_signal ]

\* The analysis is reduced to the two parts the decision reads: an overall
\* score and the entry point analyze_stock derives from it and the series.
InitBuy ==
    /\ pc = "entry"
    /\ data \in EntrySeries
    /\ overall \in { [overall_score |-> x] : x \in EntryScores }
    /\ raises \in {{}, {"entry"}}
    /\ overall_raw = 0
    /\ metrics = EmptyDict
    /\ news = [kind |-> "none"]
    /\ technical = Unset /\ fundamental = Unset /\ sentiment = Unset
    /\ momentum = Unset
    /\ predictions = Unset /\ entry = Unset /\ targets = Unset /\ result = Unset
    /\ EngineIdle

\* analyze_stock found no data: `if not analysis`
BuyWithoutData ==
    /\ pc = "entry"
    /\ data.n = 0
    /\ result' = should_buy_now(None)
    /\ pc' = "returned"
    /\ UNCHANGED <<data, metrics, news, raises, technical, fundamental, sentiment,
                   momentum, overall, overall_raw, predictions, entry, targets,
                   engine>>

BuyAnalyze == data.n > 0 /\ EntryStep("recommend")

BuyRecommend ==
    /\ pc = "recommend"
    /\ result' = should_buy_now([overall_score |-> overall, entry_point |-> entry])
    /\ pc' = "returned"
    /\ UNCHANGED <<data, metrics, news, raises, technical, fundamental, sentiment,
                   momentum, overall, overall_raw, predictions, entry, targets,
                   engine>>

NextBuy ==
    \/ BuyWithoutData
    \/ BuyAnalyze
    \/ BuyRecommend

SpecBuy == InitBuy /\ [][NextBuy]_vars

\* C27: should_buy_now never answers 'MAYBE - Consider'; for an analysis, the
\* answer is one of the two 'YES' answers exactly when the overall score is
\* >= 60 and the entry label is 'Strong Buy Now', 'Good Entry Point' or
\* 'Consider Buying', and 'NO - Wait' otherwise.
C27_NoMaybe ==
    (pc = "returned" /\ IsSet(result)) =>
        /\ result.recommendation # "MAYBE - Consider"
        /\ IsSet(entry) =>
             IF overall.overall_score >= 6000
                /\ entry.entry_signal \in
                      {"Strong Buy Now", "Good Entry Point", "Consider Buying"}
             THEN result.recommendation \in {"YES - Strong Buy", "YES - Buy"}
             ELSE result.recommendation = "NO - Wait"

\* A score of exactly 60 with the label 'Consider Buying' was answered
\* 'YES - Buy'.
C27_Witness ==
    /\ pc = "returned" /\ IsSet(result) /\ IsSet(entry)
    /\ overall.overall_score = 6000 /\ entry.entry_signal = "Consider Buying"
    /\ result.recommendation = "YES - Buy"

----------------------------------------------------------------------------
(* The data source and its cache *)

\* self.cache_timeout, in seconds.
CacheTimeout == 300

\* A variant in which the cache key leaves the symbol out.
CacheKey_PeriodOnly(symbol, period) == period

\* cache_key = f"{symbol}_{period}"
CacheKey(symbol, period) == symbol \o "_" \o period

\* A variant in which an entry stored exactly cache_timeout ago is still served.
FreshEnough_Closed(age) == age <= CacheTimeout

\* time.time() - timestamp < self.cache_timeout
FreshEnough(age) == age < CacheTimeout

\* What the provider does when stock.history is called.
ProviderRaises == [kind |-> "raises"]
ProviderFrame(d) == [kind |-> IF d.n = 0 THEN "empty" ELSE "frame", series |-> d]

\* get_stock_data with cache c; `now` is the clock reading when the cache is
\* looked up, `later` the one when the fetched frame is stored, `outcome`
\* what the provider does if it is asked.  Gives the value returned, the cache
\* afterwards, and what the provider did.
get_stock_data(c, now, later, symbol, period, outcome) ==
    LET cache_key == CacheKey(symbol, period) IN
    IF cache_key \in DOMAIN c /\ FreshEnough(now - c[cache_key].stored)
    THEN [ returned |-> c[cache_key].series, cache |-> c, provider |-> "not asked" ]
    ELSE IF outcome.kind = "frame"
    THEN [ returned |-> outcome.series,
           cache |-> (cache_key :> [series |-> outcome.series, stored |-> later]) @@ c,
           provider |-> outcome.kind ]
    ELSE [ returned |-> None, cache |-> c, provider |-> outcome.kind ]

\* The record kept of a call of get_stock_data.
FetchRecord(symbol, period, now, g) ==
    [ symbol |-> symbol, period |-> period, at |-> now,
      returned |-> g.returned, provider |-> g.provider ]

\* Time passes: the clock advances by one of the given numbers of seconds.
Elapse(Steps, MaxClock) ==
    /\ \E dt \in Steps :
         /\ clock + dt <= MaxClock
         /\ clock' = clock + dt
    /\ UNCHANGED <<pc, data, metrics, news, raises, technical, fundamental, sentiment,
                   momentum, overall, overall_raw, predictions, entry, targets, result,
                   cache, args, cursor, results, fetched>>

----------------------------------------------------------------------------
(* Specification of the list entry points of StockAnalyzer *)

\* Longest symbol list generated.
MaxSymbols == 2

\* Last clock reading of a list call.
MaxListClock == 450

\* Four tickers: a rising and a falling stock with a full history, one listed
\* 29 sessions ago, and one the provider has no row for.
Symbols == {"AAA", "BBB", "IPO", "ZZZ"}

\* Sessions in a history of the given period.
PeriodRows(period) == IF period = "3mo" THEN 63 ELSE 252

\* The provider's answers for a symbol, the same at every call.
ProviderSeries(symbol, period) ==
    CASE symbol = "AAA" -> [BullSeries EXCEPT !.n = PeriodRows(period)]
      [] symbol = "BBB" -> [BearSeries EXCEPT !.n = PeriodRows(period)]
      [] symbol = "IPO" -> [FlatSeries EXCEPT !.n = 29]
      [] OTHER -> [FlatSeries EXCEPT !.n = 0]

ProviderMetrics(symbol) ==
    CASE symbol = "AAA" -> FullMetrics(BestMetrics)
      [] symbol = "BBB" -> FullMetrics(PoorMetrics)
      [] OTHER -> FullMetrics(EmptyDict)

ProviderNews(symbol) ==
    CASE symbol = "AAA" -> [kind |-> "articles", polarities |-> <<1000, 1000>>]
      [] symbol = "BBB" -> [kind |-> "articles", polarities |-> <<-1000>>]
      [] OTHER -> [kind |-> "none"]

\* analyze_stock as a function of what the data source handed over.  The
\* representation error of a float computation is determined by its operands,
\* so the same inputs give the same error: it is taken as 0 here.
analyze_stock(symbol, d, m, nw) ==
    IF d = None THEN None
    ELSE IF d.n = 0 THEN None
    ELSE
      LET technical_r == calculate_technical_score(d, FALSE, 0)
          fundamental_r == calculate_fundamental_score(m, FALSE)
          sentiment_r == get_overall_sentiment(nw, d, FALSE, 0)
          momentum_r == calculate_momentum_score(d, FALSE, 0)
          overall_r == calculate_overall_score(technical_r, fundamental_r,
                                               sentiment_r, momentum_r, 0)
      IN [ symbol |-> symbol,
           current_price |-> RoundNear(d.close, 10, 0),
           overall_score |-> overall_r,
           technical |-> technical_r,
           fundamental |-> fundamental_r,
           sentiment |-> sentiment_r,
           momentum |-> momentum_r,
           predictions |-> [ tomorrow |-> predict_short_term(d, 1, FALSE, 0),
                             next_week |-> predict_medium_term(d, 1, FALSE, 0),
                             long_term |-> predict_long_term(d, 12, FALSE, 0) ],
           entry_point |-> identify_entry_point(d, overall_r.overall_score, FALSE, 0),
           targets |-> calculate_target_price(d.close, overall_r.overall_score,
                                              TRUE, 0, 0, 0),
           metrics |-> m ]

\* The frame analyze_stock was given, after the routines it was passed to.
AfterAnalysis(d) ==
    AfterScratchWrites(
        AfterScratchWrites(
            AfterScratchWrites(d, ShortTermScratch(d)),
            ShortTermScratch(d)),
        LongTermScratch(d))

\* The lists of at most MaxSymbols symbols, repetitions included.
SymbolLists == UNION { [1..k -> Symbols] : k \in 0..MaxSymbols }

\* The calls served: analyze_multiple over a 1y history, and
\* get_top_gainers_prediction with its default 3mo history.
ListCalls ==
    { [entry_point |-> "analyze_multiple", symbols |-> q, timeframe |-> "1y",
       count |-> 0] : q \in SymbolLists }
    \cup
    { [entry_point |-> "get_top_gainers_prediction", symbols |-> q,
       timeframe |-> "3mo", count |-> c] : q \in SymbolLists, c \in {1, 10} }

\* The cache of an engine that served the symbols S for the period before.
PriorCache(S, period) ==
    [ k \in { CacheKey(x, period) : x \in S } |->
        [ series |-> ProviderSeries(CHOOSE x \in S : CacheKey(x, period) = k, period),
          stored |-> 0 ] ]

InitMultiple ==
    /\ pc = "list"
    /\ args \in ListCalls
    /\ cache \in { PriorCache(S, args.timeframe) : S \in SUBSET {"AAA", "BBB", "IPO"} }
    /\ clock = 0 /\ cursor = 0 /\ results = << >> /\ fetched = Unset
    /\ data = BaseSeries /\ metrics = EmptyDict /\ news = [kind |-> "none"]
    /\ raises = {}
    /\ technical = Unset /\ fundamental = Unset /\ sentiment = Unset
    /\ momentum = Unset /\ overall = Unset /\ overall_raw = 0
    /\ predictions = Unset /\ entry = Unset /\ targets = Unset /\ result = Unset

\* One turn of the loop of analyze_multiple.
AnalyzeNextSymbol ==
    /\ pc = "list"
    /\ cursor < Len(args.symbols)
    /\ LET symbol == args.symbols[cursor + 1]
           cache_key == CacheKey(symbol, args.timeframe)
       IN \E g \in { get_stock_data(cache, clock, clock, symbol, args.timeframe,
                        ProviderFrame(ProviderSeries(symbol, args.timeframe))) } :
          \E a \in { analyze_stock(symbol, g.returned, ProviderMetrics(symbol),
                                   ProviderNews(symbol)) } :
          /\ fetched' = FetchRecord(symbol, args.timeframe, clock, g)
          \* the cached frame is the very frame that was analysed
          /\ cache' = IF g.returned # None /\ cache_key \in DOMAIN g.cache
                      THEN [g.cache EXCEPT ![cache_key].series = AfterAnalysis(@)]
                      ELSE g.cache
          /\ results' = IF a # None THEN Append(results, a) ELSE results
    /\ cursor' = cursor + 1
    /\ UNCHANGED <<pc, data, metrics, news, raises, technical, fundamental, sentiment,
                   momentum, overall, overall_raw, predictions, entry, targets, result,
                   clock, args>>

\* Time passes between two symbols.
ListElapse == pc = "list" /\ Elapse({150}, MaxListClock)

\* analyze_multiple: `return results`
ReturnAnalyses ==
    /\ pc = "list"
    /\ args.entry_point = "analyze_multiple"
    /\ cursor = Len(args.symbols)
    /\ result' = results
    /\ pc' = "returned"
    /\ UNCHANGED <<data, metrics, news, raises, technical, fundamental, sentiment,
                   momentum, overall, overall_raw, predictions, entry, targets,
                   engine>>

\* The sort key of get_top_gainers_prediction and its order (tuples compare
\* lexicographically).
GainerKey(a) == <<a.momentum.score, a.predictions.tomorrow.predicted_change_pct>>

KeyBelow(k1, k2) == k1[1] < k2[1] \/ (k1[1] = k2[1] /\ k1[2] < k2[2])

\* sorted(.., reverse=True) is stable: an element goes behind those of equal key.
RECURSIVE InsertDescending(_, _)
InsertDescending(ranked, a) ==
    IF ranked = << >> THEN <<a>>
    ELSE IF KeyBelow(GainerKey(Head(ranked)), GainerKey(a)) THEN <<a>> \o ranked
    ELSE <<Head(ranked)>> \o InsertDescending(Tail(ranked), a)

RECURSIVE SortDescending(_)
SortDescending(list) ==
    IF list = << >> THEN << >>
    ELSE InsertDescending(SortDescending(SubSeq(list, 1, Len(list) - 1)),
                          list[Len(list)])

\* a['predictions']['tomorrow']['direction'] == 'Up' and
\* a['overall_score']['overall_score'] >= 50
IsGainer(a) ==
    /\ a.predictions.tomorrow.direction = "Up"
    /\ a.overall_score.overall_score >= 5000

\* The filter of get_top_gainers_prediction indexes 'direction' in every
\* forecast: one that has no such key raises KeyError, and nothing catches it.
FilterRaises(analyses) ==
    \E i \in 1..Len(analyses) :
        "direction" \notin DOMAIN analyses[i].predictions.tomorrow

\* The rest of get_top_gainers_prediction, given the analyses, when the
\* filter goes through.
get_top_gainers_prediction(analyses, count) ==
    LET ranked == SortDescending(SelectSeq(analyses, IsGainer))
    IN SubSeq(ranked, 1, IF count < Len(ranked) THEN count ELSE Len(ranked))

\* The call ends with the ranking, or with the KeyError of the filter.
ReturnTopGainers ==
    /\ pc = "list"
    /\ args.entry_point = "get_top_gainers_prediction"
    /\ cursor = Len(args.symbols)
    /\ IF FilterRaises(results)
       THEN result' = result /\ pc' = "raised"
       ELSE result' = get_top_gainers_prediction(results, args.count)
            /\ pc' = "returned"
    /\ UNCHANGED <<data, metrics, news, raises, technical, fundamental, sentiment,
                   momentum, overall, overall_raw, predictions, entry, targets,
                   engine>>

NextMultiple ==
    \/ AnalyzeNextSymbol
    \/ ListElapse
    \/ ReturnAnalyses
    \/ ReturnTopGainers

SpecMultiple == InitMultiple /\ [][NextMultiple]_vars

\* What a newly constructed engine returns for each symbol and period.
FreshAnalyses ==
    [ x \in Symbols \X {"1y", "3mo"} |->
        analyze_stock(x[1],
                      get_stock_data(EmptyDict, 0, 0, x[1], x[2],
                                     ProviderFrame(ProviderSeries(x[1], x[2]))).returned,
                      ProviderMetrics(x[1]), ProviderNews(x[1])) ]

FreshAnalysis(symbol, period) == FreshAnalyses[<<symbol, period>>]

RECURSIVE FreshResults(_, _)
FreshResults(list, period) ==
    IF list = << >> THEN << >>
    ELSE LET a == FreshAnalysis(Head(list), period)
         IN (IF a # None THEN <<a>> ELSE << >>) \o FreshResults(Tail(list), period)

\* C23: with a provider that answers the same for a symbol at every call, the
\* analyses a list call has collected are, in list order, exactly what a newly
\* constructed engine returns for each symbol: nothing kept from earlier
\* symbols or earlier calls (the cache included) changes a result, so every
\* permutation of the list gives the same result per symbol.
C23_NoCrossCallState ==
    pc \in {"list", "returned", "raised"} =>
        /\ results = FreshResults(SubSeq(args.symbols, 1, cursor), args.timeframe)
        /\ (pc = "returned" /\ args.entry_point = "analyze_multiple") => result = results

\* A list call returned two analyses, the second served from a cache entry
\* of an earlier call after another symbol was analysed and time had passed.
C23_Witness ==
    /\ pc = "returned" /\ args.entry_point = "analyze_multiple"
    /\ Len(args.symbols) = 2 /\ Len(result) = 2
    /\ args.symbols[2] # args.symbols[1]
    /\ fetched.provider = "not asked" /\ clock = 150

----------------------------------------------------------------------------
(* Specification of the data source serving calls of get_stock_data *)

\* Last clock reading of the data source.
MaxCacheClock == 450

\* The requests made of the data source.
CacheRequests == { <<"AAA", "1y">>, <<"BBB", "1y">> }

\* The frame the provider has for the request at the given time: the market
\* moves, so the last close tells when the frame was fetched.
LiveSeries(symbol, period, now) ==
    [ProviderSeries(symbol, period) EXCEPT !.close = @ + now]

\* What the provider may do at the given time: raise, hand an empty frame,
\* or hand the day's frame.
ProviderOutcomes(symbol, period, now) ==
    { ProviderRaises,
      ProviderFrame([ProviderSeries(symbol, period) EXCEPT !.n = 0]),
      ProviderFrame(LiveSeries(symbol, period, now)) }

InitCache ==
    /\ pc = "serving"
    /\ cache = EmptyDict /\ clock = 0 /\ fetched = Unset
    /\ args = Unset /\ cursor = 0 /\ results = << >>
    /\ data = BaseSeries /\ metrics = EmptyDict /\ news = [kind |-> "none"]
    /\ raises = {}
    /\ technical = Unset /\ fundamental = Unset /\ sentiment = Unset
    /\ momentum = Unset /\ overall = Unset /\ overall_raw = 0
    /\ predictions = Unset /\ entry = Unset /\ targets = Unset /\ result = Unset

\* One call of get_stock_data; a fetch takes no time or half the timeout.
CallGetStockData ==
    /\ pc = "serving"
    /\ \E request \in CacheRequests, took \in {0, 150} :
       \E outcome \in ProviderOutcomes(request[1], request[2], clock) :
       \E g \in { get_stock_data(cache, clock, clock + took, request[1], request[2],
                                 outcome) } :
         /\ clock + took <= MaxCacheClock
         /\ cache' = g.cache
         /\ clock' = IF g.provider = "not asked" THEN clock ELSE clock + took
         /\ fetched' = FetchRecord(request[1], request[2], clock, g)
    /\ UNCHANGED <<pc, data, metrics, news, raises, technical, fundamental, sentiment,
                   momentum, overall, overall_raw, predictions, entry, targets, result,
                   args, cursor, results>>

\* Time passes between two calls.
CacheElapse == pc = "serving" /\ Elapse({149, 150}, MaxCacheClock)

NextCache ==
    \/ CallGetStockData
    \/ CacheElapse

SpecCache == InitCache /\ [][NextCache]_vars

\* C25: a call of get_stock_data that returns a series returns the one held
\* under the key of its symbol and period, stored during the call or less than
\* 300 s before it; a call whose fetch raised or gave an empty frame returns
\* None, whatever expired entry the cache holds; and the cache holds no empty
\* series.
C25_NeverStale ==
    /\ \A k \in DOMAIN cache : cache[k].series.n > 0
    /\ IsSet(fetched) =>
         LET cache_key == CacheKey(fetched.symbol, fetched.period) IN
         /\ fetched.returned # None =>
              /\ cache_key \in DOMAIN cache
              /\ cache[cache_key].series = fetched.returned
              /\ fetched.at - cache[cache_key].stored < CacheTimeout
              /\ \E t \in 0..fetched.at :
                    fetched.returned = LiveSeries(fetched.symbol, fetched.period, t)
         /\ fetched.provider \in {"raises", "empty"} => fetched.returned = None
         /\ fetched.provider = "not asked" => fetched.returned # None

\* A call found an entry stored exactly 300 s earlier, fetched again and the
\* fetch failed: it returned None while the expired entry stays in the cache.
C25_Witness ==
    /\ IsSet(fetched)
    /\ fetched.provider = "raises" /\ fetched.returned = None
    /\ CacheKey(fetched.symbol, fetched.period) \in DOMAIN cache
    /\ fetched.at - cache[CacheKey(fetched.symbol, fetched.period)].stored = CacheTimeout

\* C28: get_top_gainers_prediction returns a list and raises nothing, for
\* every symbol list and every series length; every analysis it returns has
\* direction 'Up' and an overall score >= 50, the list is in descending order
\* of (momentum score, predicted change) and is at most `count` long.
C28_TopGainersTotal ==
    (pc \in {"returned", "raised"}
     /\ args.entry_point = "get_top_gainers_prediction") =>
        /\ pc = "returned"
        /\ Len(result) <= args.count
        /\ \A i \in 1..Len(result) :
              /\ result[i].predictions.tomorrow.direction = "Up"
              /\ result[i].overall_score.overall_score >= 5000
        /\ \A i \in 1..(Len(result) - 1) :
              ~KeyBelow(GainerKey(result[i]), GainerKey(result[i + 1]))

\* C29: the fundamental scorer returns the neutral score 50.0 whenever no
\* metric is known, for the empty map and for a map whose every key carries
\* None alike.
C29_NeutralWhenUnknown ==
    (IsSet(fundamental) /\ \A k \in DOMAIN metrics : IsNone(metrics[k])) =>
        fundamental.score = 5000


============================================================================
